---- MODULE Spec2Model ----
(***************************************************************************)
(* The scripted diagnostic runner of rhinestone-stox-dynamic: the three    *)
(* runTest procedures (Eip7702Test, App, RhinestoneTest) as one state      *)
(* machine.  A run is cut at its awaits: one action issues the code up to  *)
(* the next awaited external call, one action per awaited call takes the   *)
(* call's outcome (a resolved value or a thrown value) and runs the code   *)
(* up to the next await, and Finally is the finally block.                 *)
(*                                                                         *)
(* Strings are sequences of tokens: a template literal is the              *)
(* concatenation of its parts, and String.includes is token membership.    *)
(* The time field of a LogEntry (the wall clock) is left out.              *)
(*                                                                         *)
(* Spec is one mounted component and its runs.  PageSpec adds Root of      *)
(* main.tsx, which replaces the mounted component when the page is         *)
(* switched.  ReplaySpec runs runTest twice and gives the second run the   *)
(* answers the first was given.                                            *)
(***************************************************************************)
EXTENDS Integers, Sequences, FiniteSets, TLC

VARIABLES
    variant,            \* the component whose runTest this is
    primaryWallet,      \* useDynamicContext().primaryWallet
    RHINESTONE_API_KEY, \* import.meta.env.VITE_RHINESTONE_API_KEY is set
    viemSignAuth,       \* typeof walletClient.signAuthorization === 'function'
    contractAddress,    \* Eip7702Test: the delegate address input
    logs,               \* useState<LogEntry[]>
    running,            \* useState(false)
    lastAuthorization,  \* Eip7702Test: useState<any>(null)
    pc,                 \* position of runTest: "idle", "body", "await_<op>", "finally"
    calls,              \* external operations of the current run, in order
    loc,                \* runTest's local variables that live across awaits
    rejection,          \* the value runTest's promise is about to reject with
    settled,            \* how the last run's promise settled
    currentNetwork,     \* connector state: the chain it is on
    activeAccount,      \* connector state: the active account's address
    callbacks,          \* RhinestoneTest: eoaAccount.signAuthorization callbacks of this run
    DYNAMIC_ENVIRONMENT_ID, \* import.meta.env.VITE_DYNAMIC_ENVIRONMENT_ID is set
    detached,           \* the call in flight of a run whose component was unmounted
    history             \* history: what the run before this one logged and was answered

vars == <<variant, primaryWallet, RHINESTONE_API_KEY, viemSignAuth, contractAddress,
          logs, running, lastAuthorization, pc, calls, loc, rejection, settled,
          currentNetwork, activeAccount, callbacks, DYNAMIC_ENVIRONMENT_ID, detached, history>>

\* what the page is rendered with
pageVars == <<variant, primaryWallet, RHINESTONE_API_KEY, viemSignAuth, contractAddress,
              DYNAMIC_ENVIRONMENT_ID, detached>>

\* what no step of a run writes
envVars == <<pageVars, history>>

-----------------------------------------------------------------------------
(* Bounds *)

MaxNonce == 1
MaxCallbacks == 1
MaxAuths == 1

-----------------------------------------------------------------------------
(* Values *)

None == <<>>
Some(v) == <<v>>

UNDEFINED == "undefined"
NULL == "null"

BASE_ID == 8453

TEST_DELEGATE_CONTRACT == "0x0000000000000000000000000000000000000001"
OTHER_DELEGATE == "0xDe1e9a7e"
SENDER == "0xAbC1"

Variants == {"Eip7702Test", "App", "RhinestoneTest"}

\* String.prototype.toLowerCase on the strings of the model
toLowerCase(s) ==
    CASE s = "0xAbC1" -> "0xabc1"
      [] s = "0xABC1" -> "0xabc1"
      [] s = "0xDe1e9a7e" -> "0xde1e9a7e"
      [] s = "Dynamic Embedded" -> "dynamic embedded"
      [] s = "MetaMask" -> "metamask"
      [] OTHER -> s

\* String.prototype.includes, on token sequences
includes(msg, tok) == \E i \in DOMAIN msg : msg[i] = tok

BoolStr(b) == IF b THEN "true" ELSE "false"

\* a number in a template literal
NumStr(n) == ToString(n)

-----------------------------------------------------------------------------
(* Thrown values: an Error with a message, an object without one, null *)

Err(m) == [kind |-> "Error", message |-> m]
ThrownObject == [kind |-> "Object", message |-> <<>>]
ThrownNull == [kind |-> "Null", message |-> <<>>]

ErrorMessages ==
    { <<"Account type", " \"", "json-rpc", "\" is ", "not supported">>,
      <<"Account type", " mismatch">>,
      <<"Signing with a ", "json-rpc", " account failed">>,
      <<"Method is ", "not supported">>,
      <<"User rejected the request">>,
      <<"Method not found">> }

Thrown == {Err(m) : m \in ErrorMessages} \cup {ThrownObject, ThrownNull}

\* the TypeErrors the runtime raises on a property read of null or undefined
TypeErrorNull(prop) == Err(<<"Cannot read properties of null (reading '", prop, "')">>)
TypeErrorUndefined(prop) == Err(<<"Cannot read properties of undefined (reading '", prop, "')">>)

\* `e.message` throws when e is null or undefined
MessageThrows(e) == e.kind = "Null"
\* `${e.message}`
MessageText(e) == IF e.kind = "Error" THEN e.message ELSE <<UNDEFINED>>
\* `e.message.includes(..)` throws when e.message is undefined
IncludesThrows(e) == e.kind # "Error"

-----------------------------------------------------------------------------
(* The log *)

LogEntry(level, msg) == [level |-> level, msg |-> msg]

\* a log that puts the new entry first
logPrepend(prev, level, msg) == <<LogEntry(level, msg)>> \o prev

\* setLogs((prev) => [...prev, { time, level, msg }])
log(prev, level, msg) == Append(prev, LogEntry(level, msg))

RECURSIVE logAll(_, _)
logAll(prev, entries) ==
    IF entries = <<>> THEN prev
    ELSE logAll(log(prev, Head(entries).level, Head(entries).msg), Tail(entries))

\* an entry of calls: the operation, what happened (call, resolve, reject) and the
\* argument, the resolved value or the thrown value
Call(op, arg) == [op |-> op, ev |-> "call", val |-> arg]

NoLoc == [eip7702InitSignature |-> UNDEFINED, preparedTx |-> UNDEFINED,
          signedTx |-> UNDEFINED, rhinestoneAddress |-> UNDEFINED,
          signAuthFailed |-> FALSE]

-----------------------------------------------------------------------------
(* The environment: the wallet handle and its connector *)

NoWallet ==
    [present |-> FALSE, address |-> UNDEFINED, hasConnector |-> FALSE, name |-> UNDEFINED,
     isSignAuthorizationSupported |-> "absent", evmNetworks |-> None,
     getNetwork |-> FALSE, switchNetwork |-> FALSE, setActiveAccount |-> FALSE,
     getActiveAccount |-> FALSE, activates |-> FALSE, getSigner |-> FALSE,
     getWalletClient |-> FALSE, exportPrivateKey |-> FALSE]

\* a wallet without a connector
BareWallet == [NoWallet EXCEPT !.present = TRUE, !.address = SENDER]

\* the declared chain sets: evmNetworks missing, empty, without Base, with Base
ChainSets == {None, Some(<<>>), Some(<<1>>), Some(<<1, BASE_ID>>)}

\* DynamicWaasConnector as Eip7702Test reads it
EipWallets ==
    {NoWallet, BareWallet} \cup
    { [BareWallet EXCEPT !.hasConnector = TRUE, !.name = "Dynamic Embedded",
          !.isSignAuthorizationSupported = sup, !.evmNetworks = nets,
          !.getNetwork = gn, !.switchNetwork = sw, !.setActiveAccount = sa,
          !.getActiveAccount = ga, !.activates = act, !.getSigner = gs] :
        sup \in {"absent", "true", "false"}, nets \in ChainSets,
        gn \in BOOLEAN, sw \in BOOLEAN, sa \in BOOLEAN, ga \in BOOLEAN,
        act \in BOOLEAN, gs \in BOOLEAN }

\* what connector.getSigner() resolves with
Signer(sa, acct) == [isNull |-> FALSE, signAuthorization |-> sa, account |-> acct]
NullSigner == [isNull |-> TRUE, signAuthorization |-> FALSE, account |-> UNDEFINED]
Signers == {NullSigner} \cup {Signer(sa, acct) : sa \in BOOLEAN, acct \in {UNDEFINED, SENDER}}

\* what signer.signAuthorization() resolves with: an authorization tuple (newer
\* signers name the delegate `address`), or nothing
Authorization(ca, a, c, n, y) ==
    [isNull |-> FALSE, contractAddress |-> ca, address |-> a, chainId |-> c,
     nonce |-> n, r |-> "0x1", s |-> "0x2", yParity |-> y]
NullAuthorization ==
    [isNull |-> TRUE, contractAddress |-> UNDEFINED, address |-> UNDEFINED, chainId |-> 0,
     nonce |-> 0, r |-> UNDEFINED, s |-> UNDEFINED, yParity |-> 0]
Authorizations ==
    {NullAuthorization} \cup
    { Authorization(ca[1], ca[2], c, n, y) :
        ca \in {<<TEST_DELEGATE_CONTRACT, UNDEFINED>>, <<OTHER_DELEGATE, UNDEFINED>>,
                <<UNDEFINED, OTHER_DELEGATE>>},
        c \in {1, BASE_ID}, n \in 0..MaxNonce, y \in {0, 1} }

-----------------------------------------------------------------------------
(* How a synchronous stretch of runTest ends *)

\* `return` inside the try block
Exit(lg, cl) ==
    /\ logs' = lg
    /\ calls' = cl
    /\ rejection' = None
    /\ pc' = "finally"

\* the outer catch block: log('error', `<prefix>${e.message}`)
OuterCatch(lg, cl, e) ==
    /\ calls' = cl
    /\ pc' = "finally"
    /\ IF MessageThrows(e)
       THEN /\ logs' = lg
            /\ rejection' = Some(TypeErrorNull("message"))
       ELSE /\ logs' = log(lg, "error",
                          <<IF variant = "App" THEN "Unexpected error: " ELSE "Error: ">>
                             \o MessageText(e))
            /\ rejection' = None

\* an await that issues its call a second time
AwaitAgain(lg, cl, op, arg) ==
    /\ logs' = lg
    /\ calls' = Append(Append(cl, Call(op, arg)), Call(op, arg))
    /\ rejection' = None
    /\ pc' = op

\* `await <op>(<arg>)`: the call is issued and runTest is suspended on it
Await(lg, cl, op, arg) ==
    /\ logs' = lg
    /\ calls' = Append(cl, Call(op, arg))
    /\ rejection' = None
    /\ pc' = op

Resolved(op, v) == [op |-> op, ev |-> "resolve", val |-> v]
Rejected(op, e) == [op |-> op, ev |-> "reject", val |-> e]

-----------------------------------------------------------------------------
(* runTest: the reset, and the finally block *)

\* History of the run before the one that starts: while two runs in a row are compared,
\* what the first logged, was answered and settled with is kept when the second clears
\* the state (runTest itself keeps nothing from one run to the next).
NoHistory ==
    [mode |-> "off", logs |-> <<>>, calls |-> <<>>, settled |-> "none",
     network |-> None, networkMoved |-> FALSE]

RunHistory ==
    CASE history.mode = "first" /\ settled = "none" -> [history EXCEPT !.network = currentNetwork]
      [] history.mode = "first" /\ settled # "none" ->
            [mode |-> "second", logs |-> logs, calls |-> calls, settled |-> settled,
             network |-> history.network,
             networkMoved |-> currentNetwork # history.network]
      [] OTHER -> history

\* a runTest that starts without resetting the stored authorization
RunTestKeepsAuthorization ==
    /\ pc = "idle"
    /\ ~running
    /\ DYNAMIC_ENVIRONMENT_ID
    /\ history.mode # "second"
    /\ history' = RunHistory
    /\ logs' = <<>>
    /\ lastAuthorization' = lastAuthorization
    /\ running' = TRUE
    /\ pc' = "body"
    /\ calls' = <<>>
    /\ loc' = NoLoc
    /\ rejection' = None
    /\ settled' = "pending"
    /\ callbacks' = 0
    /\ UNCHANGED <<pageVars, currentNetwork, activeAccount>>

\* a run started on a page that was rendered without the environment id
RunTestWithoutEnvironmentId ==
    /\ pc = "idle"
    /\ ~running
    /\ history.mode # "second"
    /\ history' = RunHistory
    /\ logs' = <<>>
    /\ lastAuthorization' = None
    /\ running' = TRUE
    /\ pc' = "body"
    /\ calls' = <<>>
    /\ loc' = NoLoc
    /\ rejection' = None
    /\ settled' = "pending"
    /\ callbacks' = 0
    /\ UNCHANGED <<pageVars, currentNetwork, activeAccount>>

\* a runTest that starts without clearing the log
RunTestKeepsLogs ==
    /\ pc = "idle"
    /\ ~running
    /\ DYNAMIC_ENVIRONMENT_ID
    /\ history.mode # "second"
    /\ history' = RunHistory
    /\ logs' = logs
    /\ lastAuthorization' = None
    /\ running' = TRUE
    /\ pc' = "body"
    /\ calls' = <<>>
    /\ loc' = NoLoc
    /\ rejection' = None
    /\ settled' = "pending"
    /\ callbacks' = 0
    /\ UNCHANGED <<pageVars, currentNetwork, activeAccount>>

\* main.tsx, lines 8-12: without VITE_DYNAMIC_ENVIRONMENT_ID the module throws before
\* anything is rendered, so there is no button and no run.
\* runTest, lines 36-38 of Eip7702Test (23-24 of App, 44-45 of RhinestoneTest); the
\* run button, its caller, is disabled while running.  runTest is modelled as the
\* procedure it is: it tests primaryWallet itself and is run here with and without one.
RunTest ==
    /\ pc = "idle"
    /\ ~running
    /\ DYNAMIC_ENVIRONMENT_ID
    /\ history.mode # "second"
    /\ history' = RunHistory
    /\ logs' = <<>>
    /\ lastAuthorization' = None
    /\ running' = TRUE
    /\ pc' = "body"
    /\ calls' = <<>>
    /\ loc' = NoLoc
    /\ rejection' = None
    /\ settled' = "pending"
    /\ callbacks' = 0
    /\ UNCHANGED <<pageVars, currentNetwork, activeAccount>>

\* a finally block that leaves the flag alone
FinallyKeepsRunning ==
    /\ pc = "finally"
    /\ running' = running
    /\ pc' = "idle"
    /\ settled' = IF rejection = None THEN "fulfilled" ELSE "rejected"
    /\ UNCHANGED <<envVars, logs, lastAuthorization, calls, loc, rejection,
                   currentNetwork, activeAccount, callbacks>>

\* finally { setRunning(false) }
Finally ==
    /\ pc = "finally"
    /\ running' = FALSE
    /\ pc' = "idle"
    /\ settled' = IF rejection = None THEN "fulfilled" ELSE "rejected"
    /\ UNCHANGED <<envVars, logs, lastAuthorization, calls, loc, rejection,
                   currentNetwork, activeAccount, callbacks>>

-----------------------------------------------------------------------------
(* Eip7702Test.runTest *)

\* a step 5 that reports the missing getSigner and goes on to call it
EipStep5CallsAnyway(lg, cl) ==
    LET lg1 == log(lg, "info", <<"Step 5: Getting signer and signing EIP-7702 authorization...">>)
    IN  IF ~primaryWallet.getSigner
        THEN Await(log(lg1, "error", <<"getSigner not available">>), cl, "getSigner", None)
        ELSE Await(lg1, cl, "getSigner", None)

\* Step 5 up to `await connector.getSigner()`
EipStep5(lg, cl) ==
    LET lg1 == log(lg, "info", <<"Step 5: Getting signer and signing EIP-7702 authorization...">>)
    IN  IF ~primaryWallet.getSigner
        THEN Exit(log(lg1, "error", <<"getSigner not available">>), cl)
        ELSE Await(lg1, cl, "getSigner", None)

\* a step 4 that does not ask the connector for the active account
EipStep4Unchecked(lg, cl) ==
    LET lg1 == log(lg, "info", <<"Step 4: Setting active account...">>)
        cl1 == Append(cl, Call("setActiveAccount", Some(primaryWallet.address)))
        act == IF primaryWallet.activates THEN Some(primaryWallet.address) ELSE activeAccount
    IN  IF primaryWallet.setActiveAccount
        THEN /\ activeAccount' = act
             /\ EipStep5(log(lg1, "success", <<"Active account set: ", primaryWallet.address>>), cl1)
        ELSE /\ activeAccount' = activeAccount
             /\ Exit(log(lg1, "error", <<"setActiveAccount not available on connector">>), cl)

\* Step 4: connector.setActiveAccount(address), connector.getActiveAccount?.()
EipStep4(lg, cl) ==
    LET lg1 == log(lg, "info", <<"Step 4: Setting active account...">>)
        cl1 == Append(cl, Call("setActiveAccount", Some(primaryWallet.address)))
        act == IF primaryWallet.activates THEN Some(primaryWallet.address) ELSE activeAccount
        got == IF primaryWallet.getActiveAccount THEN act ELSE None
    IN  IF primaryWallet.setActiveAccount
        THEN /\ activeAccount' = act
             /\ IF got # None
                THEN EipStep5(log(lg1, "success", <<"Active account set: ", got[1]>>), cl1)
                ELSE Exit(log(lg1, "error", <<"Failed to set active account">>), cl1)
        ELSE /\ activeAccount' = activeAccount
             /\ Exit(log(lg1, "error", <<"setActiveAccount not available on connector">>), cl)

\* after `await connector.switchNetwork?.(..)`
EipSwitched(lg, cl) == EipStep4(log(lg, "success", <<"Switched to Base">>), cl)

\* after `await connector.getNetwork?.()`, with its value
EipNetwork(lg, cl, net) ==
    IF net # Some(BASE_ID)
    THEN LET lg1 == log(lg, "info", <<"Switching to Base (", NumStr(BASE_ID), ")...">>)
         IN  IF primaryWallet.switchNetwork
             THEN /\ Await(lg1, cl, "switchNetwork", Some(BASE_ID))
                  /\ activeAccount' = activeAccount
             ELSE EipSwitched(lg1, cl)
    ELSE EipStep4(log(lg, "success", <<"Already on Base">>), cl)

\* Base is declared, but the `return` is missing: the run goes on to Step 4
EipBaseMissingNoReturn(lg, cl) ==
    EipStep4(log(lg, "error", <<"Base not available. Add it in Dynamic dashboard.">>), cl)

\* the else branch of Step 3: Base is not among the declared chains
EipBaseMissing(lg, cl) ==
    /\ Exit(log(lg, "error", <<"Base not available. Add it in Dynamic dashboard.">>), cl)
    /\ activeAccount' = activeAccount

\* JSON.stringify of the chain id list
ChainsStr(chains) == <<"[">> \o [i \in DOMAIN chains |-> NumStr(chains[i])] \o <<"]">>

\* Steps 2 and 3 up to `await connector.getNetwork?.()`
EipStep2(lg, cl) ==
    LET sup == primaryWallet.isSignAuthorizationSupported
        cl1 == IF sup = "absent" THEN cl ELSE Append(cl, Call("isSignAuthorizationSupported", None))
        lg1 == log(lg, "info", <<"Step 2: Checking EIP-7702 support...">>)
        lg2 == IF sup = "true"
               THEN log(lg1, "success", <<"EIP-7702 signAuthorization is supported!">>)
               ELSE log(lg1, "info", <<"isSignAuthorizationSupported not available or returned false">>)
        availableChains == IF primaryWallet.evmNetworks = None THEN <<>>
                           ELSE primaryWallet.evmNetworks[1]
        lg3 == logAll(lg2, << LogEntry("info", <<"Step 3: Checking network...">>),
                              LogEntry("info", <<"Available chains: ">> \o ChainsStr(availableChains)) >>)
    IN  IF \E i \in DOMAIN availableChains : availableChains[i] = BASE_ID
        THEN IF primaryWallet.getNetwork
             THEN /\ Await(lg3, cl1, "getNetwork", None)
                  /\ activeAccount' = activeAccount
             ELSE EipNetwork(lg3, cl1, None)
        ELSE EipBaseMissing(lg3, cl1)

\* Step 1 and what follows, up to the first await
EipBody ==
    /\ pc = "body"
    /\ variant = "Eip7702Test"
    /\ LET lg1 == log(logs, "info", <<"Step 1: Checking Dynamic wallet connection...">>)
           lg2 == logAll(lg1, << LogEntry("success", <<"Wallet connected: ", primaryWallet.address>>),
                                 LogEntry("info", <<"Connector: ", primaryWallet.name>>) >>)
       IN  IF ~primaryWallet.present
           THEN /\ Exit(log(lg1, "error", <<"No wallet connected. Please connect first.">>), calls)
                /\ activeAccount' = activeAccount
           ELSE IF ~primaryWallet.hasConnector
           THEN /\ Exit(log(lg2, "error", <<"No connector found">>), calls)
                /\ activeAccount' = activeAccount
           ELSE EipStep2(lg2, calls)
    /\ UNCHANGED <<envVars, running, lastAuthorization, loc, settled, currentNetwork, callbacks>>

\* `await connector.getNetwork()` settles
EipGetNetwork ==
    /\ pc = "getNetwork"
    /\ \/ EipNetwork(logs, Append(calls, Resolved("getNetwork", currentNetwork)), currentNetwork)
       \/ \E e \in Thrown :
            /\ OuterCatch(logs, Append(calls, Rejected("getNetwork", e)), e)
            /\ activeAccount' = activeAccount
    /\ UNCHANGED <<envVars, running, lastAuthorization, loc, settled, currentNetwork, callbacks>>

\* `await connector.switchNetwork({ networkChainId: base.id })` settles
EipSwitchNetwork ==
    /\ pc = "switchNetwork"
    /\ \/ /\ EipSwitched(logs, Append(calls, Resolved("switchNetwork", None)))
          /\ currentNetwork' = Some(BASE_ID)
       \/ \E e \in Thrown :
            /\ OuterCatch(logs, Append(calls, Rejected("switchNetwork", e)), e)
            /\ UNCHANGED <<activeAccount, currentNetwork>>
    /\ UNCHANGED <<envVars, running, lastAuthorization, loc, settled, callbacks>>

\* `await connector.getSigner()` settles; then up to `await signer.signAuthorization(..)`
EipGetSigner ==
    /\ pc = "getSigner"
    /\ variant = "Eip7702Test"
    /\ \/ \E signer \in Signers :
            LET cl == Append(calls, Resolved("getSigner", signer))
                lg1 == log(logs, "success",
                           <<"Signer obtained: ",
                             IF signer.account # UNDEFINED THEN signer.account ELSE "unknown">>)
                lg2 == logAll(lg1, << LogEntry("info", <<"Signing authorization for contract: ", contractAddress>>),
                                      LogEntry("info", <<"Chain ID: ", NumStr(BASE_ID)>>) >>)
            IN  IF signer.isNull
                THEN Exit(log(logs, "error", <<"Failed to get signer">>), cl)
                ELSE IF ~signer.signAuthorization
                THEN Exit(log(lg1, "error", <<"signer.signAuthorization not available">>), cl)
                ELSE Await(lg2, cl, "signer.signAuthorization",
                           [contractAddress |-> contractAddress, chainId |-> BASE_ID])
       \/ \E e \in Thrown : OuterCatch(logs, Append(calls, Rejected("getSigner", e)), e)
    /\ UNCHANGED <<envVars, running, lastAuthorization, loc, settled, currentNetwork,
                   activeAccount, callbacks>>

\* entries that echo the request instead of the signer's answer
AuthorizationEntriesOfRequest(authorization) ==
    << LogEntry("success", <<"Contract: ", contractAddress>>),
       LogEntry("success", <<"Chain ID: ", NumStr(BASE_ID)>>),
       LogEntry("success", <<"Nonce: ", NumStr(authorization.nonce)>>),
       LogEntry("success", <<"r: ", authorization.r>>),
       LogEntry("success", <<"s: ", authorization.s>>),
       LogEntry("success", <<"yParity: ", NumStr(authorization.yParity)>>) >>

\* the success entries of lines 127-133
AuthorizationEntries(authorization) ==
    << LogEntry("success", <<"Contract: ",
                             IF authorization.contractAddress # UNDEFINED
                             THEN authorization.contractAddress ELSE authorization.address>>),
       LogEntry("success", <<"Chain ID: ", NumStr(authorization.chainId)>>),
       LogEntry("success", <<"Nonce: ", NumStr(authorization.nonce)>>),
       LogEntry("success", <<"r: ", authorization.r>>),
       LogEntry("success", <<"s: ", authorization.s>>),
       LogEntry("success", <<"yParity: ", NumStr(authorization.yParity)>>) >>

UsageEntries ==
    << LogEntry("info", <<"">>),
       LogEntry("info", <<"This authorization can be used in a transaction:">>),
       LogEntry("info", <<"walletClient.sendTransaction({">>),
       LogEntry("info", <<"  authorizationList: [authorization],">>),
       LogEntry("info", <<"  to: eoaAddress,">>),
       LogEntry("info", <<"  data: encodeFunctionData(...),">>),
       LogEntry("info", <<"});">>) >>

\* setLastAuthorization(authorization)
StoredAuthorization(authorization) == Some(authorization)

\* `await signer.signAuthorization(..)` settles
EipSignAuthorization ==
    /\ pc = "signer.signAuthorization"
    /\ \/ \E authorization \in Authorizations :
            LET cl == Append(calls, Resolved("signer.signAuthorization", authorization))
                lg1 == log(logs, "success", <<"=== EIP-7702 AUTHORIZATION SIGNED SUCCESSFULLY! ===">>)
            IN  IF authorization.isNull
                THEN /\ OuterCatch(lg1, cl, TypeErrorNull("contractAddress"))
                     /\ lastAuthorization' = lastAuthorization
                ELSE /\ Exit(logAll(logAll(lg1, AuthorizationEntries(authorization)), UsageEntries), cl)
                     /\ lastAuthorization' = StoredAuthorization(authorization)
       \/ \E e \in Thrown :
            /\ OuterCatch(logs, Append(calls, Rejected("signer.signAuthorization", e)), e)
            /\ lastAuthorization' = lastAuthorization
    /\ UNCHANGED <<envVars, running, loc, settled, currentNetwork, activeAccount, callbacks>>

-----------------------------------------------------------------------------
(* App.runTest (the bug repro) *)

\* primaryWallet and its connector as App reads them
AppWallets ==
    {NoWallet, BareWallet,
     [BareWallet EXCEPT !.hasConnector = TRUE, !.name = "Dynamic Embedded",
                        !.getWalletClient = TRUE, !.getSigner = TRUE, !.exportPrivateKey = TRUE],
     [BareWallet EXCEPT !.hasConnector = TRUE, !.name = "Dynamic Embedded",
                        !.getSigner = TRUE],
     [BareWallet EXCEPT !.hasConnector = TRUE, !.name = "MetaMask", !.getWalletClient = TRUE],
     [BareWallet EXCEPT !.hasConnector = TRUE, !.name = "MetaMask"]}

\* what an operation may throw; the message only matters to the steps that match on it
ThrownBy(op) ==
    IF op \in {"signAuthorizations", "walletClient.signAuthorization"}
    THEN Thrown
    ELSE {Err(<<"User rejected the request">>), ThrownObject, ThrownNull}

\* name.toLowerCase(), as tokens
lowerName(name) ==
    CASE name = "Dynamic Embedded" -> <<"dynamic", " ", "embedded">>
      [] name = "MetaMask" -> <<"metamask">>
      [] OTHER -> <<name>>

\* what rhinestoneAccount.getAddress() returns: the EOA (in another letter case) or not
RhinestoneAddresses == {"0xABC1", "0x5afe"}

\* what signEip7702InitData() resolves with
LONG_SIGNATURE == "0x1111111111222222222233333333334444444444"
InitSignatures == {NULL, "", "0x", LONG_SIGNATURE}

\* String.prototype.slice(0, 20) on the strings of the model
slice20(s) == IF s = LONG_SIGNATURE THEN "0x111111111122222222" ELSE s

\* Usable without the comparison with '0x': the truthiness test alone
UsableIfTruthy(sig) == sig \notin {NULL, UNDEFINED, ""}

\* eip7702InitSignature && eip7702InitSignature !== '0x'
Usable(sig) == sig \notin {NULL, UNDEFINED, "", "0x"}

PREPARED_TX == "preparedTx"
SIGNED_TX == "signedTx"

\* what signAuthorizations() resolves with: a list (by its length), or nothing
NoList == 0 - 1
AuthLists == {NoList} \cup (0..MaxAuths)

\* the serialized getTransactionMessages(preparedTx), cut at its address-shaped
\* substrings (the addresses of the model stand for 0x + 40 hex digits; every dump
\* is shorter than 300 characters); UNDEFINED when the SDK returns nothing
MessageDumps ==
    { <<"[]">>,
      <<"[{\"account\":\"", SENDER, "\"}]">>,
      <<"[{\"account\":\"", "0xABC1", "\",\"verifyingContract\":\"", OTHER_DELEGATE, "\"}]">>,
      <<"[{\"verifyingContract\":\"", OTHER_DELEGATE, "\",\"account\":\"", SENDER, "\"}]">>,
      <<"[{\"to\":\"", "0x5afe", "\",\"verifyingContract\":\"", OTHER_DELEGATE, "\"}]">>,
      <<UNDEFINED>> }

AddressShaped == {SENDER, "0xABC1", "0x5afe", OTHER_DELEGATE, TEST_DELEGATE_CONTRACT}

\* msgStr.match(/0x[a-fA-F0-9]{40}/g)
addrMatch(msgStr) == SelectSeq(msgStr, LAMBDA t : t \in AddressShaped)

\* a find that compares the addresses as they are written
delegateAddrCaseSensitive(msgStr, address) ==
    LET other == SelectSeq(addrMatch(msgStr), LAMBDA a : a # address)
    IN  IF other = <<>> THEN UNDEFINED ELSE Head(other)

\* addrMatch?.find(a => a.toLowerCase() !== address.toLowerCase())
delegateAddr(msgStr, address) ==
    LET other == SelectSeq(addrMatch(msgStr), LAMBDA a : toLowerCase(a) # toLowerCase(address))
    IN  IF other = <<>> THEN UNDEFINED ELSE Head(other)

\* what walletClient.signAuthorization() resolves with
ManualAuths == {NULL, UNDEFINED, LONG_SIGNATURE}

BUG_CONFIRMED == ">>> BUG CONFIRMED: JSON-RPC account cannot sign EIP-7702 authorizations"

\* a test that wants all three signatures in the message
IsBugSignatureAll(message) ==
    /\ includes(message, "Account type")
    /\ includes(message, "json-rpc")
    /\ includes(message, "not supported")

\* a test that forgets 'Account type'
IsBugSignatureWithoutAccountType(message) ==
    \/ includes(message, "json-rpc")
    \/ includes(message, "not supported")

\* the step-10 test of the error message
IsBugSignature(message) ==
    \/ includes(message, "Account type")
    \/ includes(message, "json-rpc")
    \/ includes(message, "not supported")

\* the step-11 test of the error message
IsRpcUnsupported(message) ==
    \/ includes(message, "not supported")
    \/ includes(message, "Method not found")

\* Step 12
AppStep12(lg, cl) ==
    LET name == primaryWallet.name
        isEmbedded == /\ name # UNDEFINED
                      /\ \/ includes(lowerName(name), "embedded")
                         \/ includes(lowerName(name), "dynamic")
        lg1 == logAll(lg, << LogEntry("info", <<"Step 12: Checking Dynamic wallet capabilities...">>),
                             LogEntry("info", <<"Wallet connector: ", name>>),
                             LogEntry("info", <<"Is embedded wallet: ",
                                                IF name = UNDEFINED THEN UNDEFINED ELSE BoolStr(isEmbedded)>>) >>)
        lg2 == IF isEmbedded
               THEN logAll(lg1, << LogEntry("info", <<"For embedded wallets, Dynamic might support:">>),
                                   LogEntry("info", <<"  - Exporting private key (user-initiated)">>),
                                   LogEntry("info", <<"  - Server-side authorization signing via API">>),
                                   LogEntry("info", <<"  - wallet_signAuthorization RPC method">>) >>)
               ELSE logAll(lg1, << LogEntry("info", <<"External wallet (e.g., MetaMask) detected">>),
                                   LogEntry("info", <<"External wallets would need to implement EIP-7702 signing natively">>) >>)
        lg3 == IF primaryWallet.getWalletClient
               THEN log(lg2, "info", <<"Connector has getWalletClient method">>) ELSE lg2
        lg4 == IF primaryWallet.getSigner
               THEN log(lg3, "info", <<"Connector has getSigner method - might return local signer">>) ELSE lg3
        lg5 == IF primaryWallet.exportPrivateKey
               THEN log(lg4, "info", <<"Connector has exportPrivateKey method!">>) ELSE lg4
    IN  Exit(lg5, cl)

\* the catch of line 177
WorkaroundCatch(lg, cl, e) ==
    IF MessageThrows(e)
    THEN OuterCatch(lg, cl, TypeErrorNull("message"))
    ELSE AppStep12(log(lg, "error", <<"Workaround setup failed: ">> \o MessageText(e)), cl)

\* the catch of line 165
ManualCatch(lg, cl, authErr) ==
    IF MessageThrows(authErr)
    THEN WorkaroundCatch(lg, cl, TypeErrorNull("message"))
    ELSE LET lg1 == log(lg, "error", <<"walletClient.signAuthorization call failed: ">>
                                         \o MessageText(authErr))
         IN  IF IncludesThrows(authErr)
             THEN WorkaroundCatch(lg1, cl, TypeErrorUndefined("includes"))
             ELSE IF IsRpcUnsupported(authErr.message)
             THEN AppStep12(log(lg1, "error",
                                <<">>> Wallet does not support wallet_signAuthorization RPC method">>), cl)
             ELSE AppStep12(lg1, cl)

\* Step 11 when step 10 failed, up to `await walletClient.signAuthorization(..)`
AppWorkaround(lg, cl) ==
    LET lg1 == log(lg, "info", <<"Step 11: Testing walletClient.signAuthorization workaround...">>)
        lg2 == log(lg1, "info", <<"walletClient.signAuthorization exists, trying it...">>)
        cl1 == Append(cl, Call("getTransactionMessages", loc.preparedTx))
    IN  IF ~viemSignAuth
        THEN AppStep12(log(lg1, "error",
                           <<"walletClient.signAuthorization not available on this walletClient">>), cl)
        ELSE \/ \E e \in ThrownBy("getTransactionMessages") :
                   WorkaroundCatch(lg2, Append(cl1, Rejected("getTransactionMessages", e)), e)
             \/ \E msgStr \in MessageDumps :
                   LET cl2 == Append(cl1, Resolved("getTransactionMessages", msgStr))
                       lg3 == log(lg2, "info", <<"Transaction messages: ">> \o msgStr \o <<"...">>)
                       found == delegateAddr(msgStr, primaryWallet.address)
                   IN  IF msgStr = <<UNDEFINED>>
                       THEN WorkaroundCatch(lg2, cl2, TypeErrorUndefined("slice"))
                       ELSE IF found # UNDEFINED
                       THEN Await(log(lg3, "info", <<"Found potential delegate: ", found>>), cl2,
                                  "walletClient.signAuthorization", found)
                       ELSE AppStep12(logAll(lg3,
                               << LogEntry("error", <<"Could not extract delegate address from SDK">>),
                                  LogEntry("info", <<"This means Rhinestone SDK does not expose the delegate contract address">>) >>),
                               cl2)

\* a step 11 that tries the workaround whether or not step 10 failed
AppStep11Always(lg, cl, signAuthFailed) == AppWorkaround(lg, cl)

\* Step 11: `if (!signAuthFailed) {..} else {..}`
AppStep11(lg, cl, signAuthFailed) ==
    IF ~signAuthFailed
    THEN AppStep12(log(lg, "info", <<"Step 11: Skipping workaround test (signAuthorizations worked)">>), cl)
    ELSE AppWorkaround(lg, cl)

\* the catch of line 126
SignAuthCatch(lg, cl, e) ==
    IF MessageThrows(e)
    THEN OuterCatch(lg, cl, TypeErrorNull("message"))
    ELSE LET lg1 == log(lg, "error", <<"signAuthorizations FAILED: ">> \o MessageText(e))
         IN  IF IncludesThrows(e)
             THEN OuterCatch(lg1, cl, TypeErrorUndefined("includes"))
             ELSE IF IsBugSignature(e.message)
             THEN AppStep11(log(lg1, "error", <<BUG_CONFIRMED>>), cl, TRUE)
             ELSE AppStep11(lg1, cl, TRUE)

\* Step 9 up to `await rhinestoneAccount.prepareTransaction(txParams)`
AppStep9(lg, cl, sig) ==
    /\ Await(logAll(lg, << LogEntry("info", <<"Step 9: Preparing transaction with feeAsset: \"USDC\"...">>),
                           LogEntry("info", <<"Including eip7702InitSignature: ", BoolStr(Usable(sig))>>) >>),
             cl, "prepareTransaction", sig)
    /\ loc' = [loc EXCEPT !.eip7702InitSignature = sig]

\* the `return` is missing: the run falls through to `primaryWallet.address`
AppNoWalletNoReturn(lg, cl) ==
    OuterCatch(log(lg, "error", <<"No wallet connected. Please connect first.">>), cl,
               TypeErrorUndefined("address"))

\* Step 1 without a wallet
AppNoWallet(lg, cl) ==
    Exit(log(lg, "error", <<"No wallet connected. Please connect first.">>), cl)

\* Step 1 and Step 2 up to `await primaryWallet.getWalletClient()`
AppBody ==
    /\ pc = "body"
    /\ variant = "App"
    /\ LET lg1 == log(logs, "info", <<"Step 1: Checking Dynamic wallet connection...">>)
           lg2 == logAll(lg1, << LogEntry("success", <<"Wallet connected: ", primaryWallet.address>>),
                                 LogEntry("info", <<"Wallet type: ",
                                                    IF primaryWallet.name # UNDEFINED
                                                    THEN primaryWallet.name ELSE "unknown">>),
                                 LogEntry("info", <<"Step 2: Getting provider from Dynamic wallet...">>) >>)
       IN  IF ~primaryWallet.present
           THEN AppNoWallet(lg1, calls)
           ELSE Await(lg2, calls, "getWalletClient", None)
    /\ UNCHANGED <<envVars, running, lastAuthorization, loc, settled, currentNetwork,
                   activeAccount, callbacks>>

\* `await primaryWallet.getWalletClient()` settles; Steps 3 to 6 up to
\* `await sdk.createAccount(..)`
AppGetWalletClient ==
    /\ pc = "getWalletClient"
    /\ \/ \E provider \in {NULL, "provider"} :
            LET cl == Append(calls, Resolved("getWalletClient", provider))
                lg1 == logAll(logs,
                         << LogEntry("success", <<"Got wallet client from Dynamic">>),
                            LogEntry("info", <<"Step 3: Creating viem WalletClient...">>),
                            LogEntry("success", <<"WalletClient created">>),
                            LogEntry("info", <<"Step 4: Converting to Rhinestone account via walletClientToAccount...">>),
                            LogEntry("success", <<"Account created - type: \"", "json-rpc", "\"">>),
                            LogEntry("info", <<"Step 5: Initializing Rhinestone SDK...">>) >>)
                lg2 == logAll(lg1,
                         << LogEntry("success", <<"Rhinestone SDK initialized">>),
                            LogEntry("info", <<"Step 6: Creating Rhinestone account with accountType: \"7702\"...">>) >>)
            IN  IF provider = NULL
                THEN Exit(log(logs, "error", <<"Failed to get wallet client from Dynamic">>), cl)
                ELSE IF ~RHINESTONE_API_KEY
                THEN Exit(log(lg1, "error", <<"VITE_RHINESTONE_API_KEY not set">>), cl)
                ELSE Await(lg2, cl, "createAccount", "7702")
       \/ \E e \in ThrownBy("getWalletClient") :
            OuterCatch(logs, Append(calls, Rejected("getWalletClient", e)), e)
    /\ UNCHANGED <<envVars, running, lastAuthorization, loc, settled, currentNetwork,
                   activeAccount, callbacks>>

\* `await sdk.createAccount(..)` settles; Step 7 up to `await rhinestoneAccount.isDeployed(base)`
AppCreateAccount ==
    /\ pc = "createAccount"
    /\ variant = "App"
    /\ \/ \E rhinestoneAddress \in RhinestoneAddresses :
            /\ Await(logAll(logs,
                       << LogEntry("success", <<"Rhinestone account: ", rhinestoneAddress>>),
                          LogEntry("info", <<"EOA match: ",
                                BoolStr(toLowerCase(rhinestoneAddress) = toLowerCase(primaryWallet.address))>>),
                          LogEntry("info", <<"Step 7: Checking deployment status on Base...">>) >>),
                     calls \o << Resolved("createAccount", "rhinestoneAccount"),
                                 Call("getAddress", None),
                                 Resolved("getAddress", rhinestoneAddress) >>,
                     "isDeployed", NumStr(BASE_ID))
            /\ loc' = [loc EXCEPT !.rhinestoneAddress = rhinestoneAddress]
       \/ \E e \in ThrownBy("createAccount") :
            /\ OuterCatch(logs, Append(calls, Rejected("createAccount", e)), e)
            /\ loc' = loc
    /\ UNCHANGED <<envVars, running, lastAuthorization, settled, currentNetwork,
                   activeAccount, callbacks>>

\* `await rhinestoneAccount.isDeployed(base)` settles; Step 8 up to
\* `await rhinestoneAccount.signEip7702InitData()`
AppIsDeployed ==
    /\ pc = "isDeployed"
    /\ \/ \E isDeployed \in BOOLEAN :
            Await(logAll(logs,
                    << LogEntry("info", <<"Account deployed: ", BoolStr(isDeployed)>>),
                       LogEntry("info", <<"Step 8: Signing EIP-7702 init data...">>) >>),
                  Append(calls, Resolved("isDeployed", BoolStr(isDeployed))),
                  "signEip7702InitData", None)
       \/ \E e \in ThrownBy("isDeployed") :
            OuterCatch(logs, Append(calls, Rejected("isDeployed", e)), e)
    /\ UNCHANGED <<envVars, running, lastAuthorization, loc, settled, currentNetwork,
                   activeAccount, callbacks>>

\* `await rhinestoneAccount.signEip7702InitData()` settles; Step 9 up to
\* `await rhinestoneAccount.prepareTransaction(txParams)`
AppSignEip7702InitData ==
    /\ pc = "signEip7702InitData"
    /\ variant = "App"
    /\ \/ \E sig \in InitSignatures :
            LET cl == Append(calls, Resolved("signEip7702InitData", sig))
            IN  IF Usable(sig)
                THEN AppStep9(log(logs, "success", <<"Init signature: ", slice20(sig), "...">>), cl, sig)
                ELSE AppStep9(log(logs, "error", <<"signEip7702InitData returned empty/null">>),
                              cl, UNDEFINED)
       \/ \E e \in ThrownBy("signEip7702InitData") :
            LET cl == Append(calls, Rejected("signEip7702InitData", e))
            IN  IF MessageThrows(e)
                THEN /\ OuterCatch(logs, cl, TypeErrorNull("message"))
                     /\ loc' = loc
                ELSE AppStep9(log(logs, "error", <<"signEip7702InitData failed: ">> \o MessageText(e)),
                              cl, UNDEFINED)
    /\ UNCHANGED <<envVars, running, lastAuthorization, settled, currentNetwork,
                   activeAccount, callbacks>>

\* `await rhinestoneAccount.prepareTransaction(txParams)` settles; Step 10 up to
\* `await rhinestoneAccount.signAuthorizations(preparedTx)`
AppPrepareTransaction ==
    /\ pc = "prepareTransaction"
    /\ variant = "App"
    /\ \/ /\ Await(logAll(logs,
                     << LogEntry("success", <<"Transaction prepared">>),
                        LogEntry("info", <<"Step 10: Calling signAuthorizations (THE BUG TEST)...">>) >>),
                   Append(calls, Resolved("prepareTransaction", PREPARED_TX)),
                   "signAuthorizations", PREPARED_TX)
          /\ loc' = [loc EXCEPT !.preparedTx = PREPARED_TX]
       \/ \E e \in ThrownBy("prepareTransaction") :
            LET cl == Append(calls, Rejected("prepareTransaction", e))
            IN  /\ loc' = loc
                /\ IF MessageThrows(e)
                   THEN OuterCatch(logs, cl, TypeErrorNull("message"))
                   ELSE Exit(log(logs, "error", <<"prepareTransaction failed: ">> \o MessageText(e)), cl)
    /\ UNCHANGED <<envVars, running, lastAuthorization, settled, currentNetwork,
                   activeAccount, callbacks>>

\* `await rhinestoneAccount.signAuthorizations(preparedTx)` settles; Steps 11 and 12
AppSignAuthorizations ==
    /\ pc = "signAuthorizations"
    /\ variant = "App"
    /\ \/ \E n \in AuthLists :
            LET cl == Append(calls, Resolved("signAuthorizations", n))
            IN  IF n = NoList
                THEN /\ SignAuthCatch(logs, cl, TypeErrorNull("length"))
                     /\ loc' = [loc EXCEPT !.signAuthFailed = TRUE]
                ELSE /\ AppStep11(log(logs, "success",
                                      <<"signAuthorizations succeeded! Got ", NumStr(n), " auth(s)">>),
                                  cl, FALSE)
                     /\ loc' = loc
       \/ \E e \in ThrownBy("signAuthorizations") :
            /\ SignAuthCatch(logs, Append(calls, Rejected("signAuthorizations", e)), e)
            /\ loc' = [loc EXCEPT !.signAuthFailed = TRUE]
    /\ UNCHANGED <<envVars, running, lastAuthorization, settled, currentNetwork,
                   activeAccount, callbacks>>

\* `await walletClient.signAuthorization(..)` settles; Step 12
AppWalletSignAuthorization ==
    /\ pc = "walletClient.signAuthorization"
    /\ \/ \E r \in ManualAuths :
            LET cl == Append(calls, Resolved("walletClient.signAuthorization", r))
                lg1 == log(logs, "success", <<"Manual signAuthorization succeeded!">>)
            IN  IF r = NULL
                THEN ManualCatch(lg1, cl, TypeErrorNull("r"))
                ELSE AppStep12(log(lg1, "info", <<"r: ", slice20(r), "...">>), cl)
       \/ \E authErr \in ThrownBy("walletClient.signAuthorization") :
            ManualCatch(logs, Append(calls, Rejected("walletClient.signAuthorization", authErr)), authErr)
    /\ UNCHANGED <<envVars, running, lastAuthorization, loc, settled, currentNetwork,
                   activeAccount, callbacks>>

-----------------------------------------------------------------------------
(* RhinestoneTest.runTest (the working flow) *)

\* DynamicWaasConnector as RhinestoneTest reads it
RhWallets ==
    {NoWallet, BareWallet} \cup
    { [BareWallet EXCEPT !.hasConnector = TRUE, !.name = "Dynamic Embedded",
                         !.setActiveAccount = sa, !.getSigner = gs,
                         !.getActiveAccount = act, !.activates = sa /\ act] :
        sa \in BOOLEAN, gs \in BOOLEAN, act \in BOOLEAN }

\* what submitTransaction() resolves with, serialized by JSON.stringify with the
\* bigint replacer
SubmitResults == { <<UNDEFINED>>, <<"{\"id\":\"", NumStr(7), "\"}">> }

\* the authorization requests the SDK hands to eoaAccount.signAuthorization
AuthRequests ==
    { [contractAddress |-> OTHER_DELEGATE, address |-> UNDEFINED, chainId |-> BASE_ID],
      [contractAddress |-> UNDEFINED, address |-> TEST_DELEGATE_CONTRACT, chainId |-> BASE_ID] }

\* from "Preparing transaction..." up to `await rhinestoneAccount.prepareTransaction(..)`
RhPrepare(lg, cl, sig) ==
    /\ Await(log(lg, "info", <<"Preparing transaction...">>),
             cl \o << Call("getAddress", None),
                      Resolved("getAddress", loc.rhinestoneAddress) >>,
             "prepareTransaction", sig)
    /\ loc' = [loc EXCEPT !.eip7702InitSignature = sig]

\* up to `await connector.getSigner()`
RhBody ==
    /\ pc = "body"
    /\ variant = "RhinestoneTest"
    /\ LET lg1 == log(logs, "success", <<"Wallet: ", primaryWallet.address>>)
       IN  IF ~primaryWallet.present
           THEN /\ Exit(log(logs, "error", <<"No wallet connected">>), calls)
                /\ activeAccount' = activeAccount
           ELSE IF ~(primaryWallet.hasConnector /\ primaryWallet.setActiveAccount
                     /\ primaryWallet.getSigner)
           THEN /\ Exit(log(lg1, "error", <<"Not a WaaS wallet">>), calls)
                /\ activeAccount' = activeAccount
           ELSE /\ Await(lg1, Append(calls, Call("setActiveAccount", Some(primaryWallet.address))),
                         "getSigner", None)
                /\ activeAccount' = IF primaryWallet.activates THEN Some(primaryWallet.address)
                                    ELSE activeAccount
    /\ UNCHANGED <<envVars, running, lastAuthorization, loc, settled, currentNetwork, callbacks>>

\* `await connector.getSigner()` settles; up to `await sdk.createAccount(..)`
RhGetSigner ==
    /\ pc = "getSigner"
    /\ variant = "RhinestoneTest"
    /\ \/ \E dynamicSigner \in Signers :
            LET cl == Append(calls, Resolved("getSigner", dynamicSigner))
                lg1 == logAll(logs, << LogEntry("success", <<"Dynamic signer ready">>),
                                       LogEntry("success", <<"Custom account created">>) >>)
            IN  IF dynamicSigner.isNull \/ ~dynamicSigner.signAuthorization
                THEN Exit(log(logs, "error", <<"Signer missing signAuthorization">>), cl)
                ELSE IF ~RHINESTONE_API_KEY
                THEN Exit(log(lg1, "error", <<"RHINESTONE_API_KEY not set">>), cl)
                ELSE Await(lg1, cl, "createAccount", UNDEFINED)
       \/ \E e \in ThrownBy("getSigner") :
            OuterCatch(logs, Append(calls, Rejected("getSigner", e)), e)
    /\ UNCHANGED <<envVars, running, lastAuthorization, loc, settled, currentNetwork,
                   activeAccount, callbacks>>

\* `await sdk.createAccount(..)` settles; up to `await rhinestoneAccount.signEip7702InitData()`
RhCreateAccount ==
    /\ pc = "createAccount"
    /\ variant = "RhinestoneTest"
    /\ \/ \E rhinestoneAddress \in RhinestoneAddresses :
            /\ Await(logAll(logs,
                       << LogEntry("success", <<"Rhinestone account: ", rhinestoneAddress>>),
                          LogEntry("info", <<"Signing EIP-7702 init data...">>) >>),
                     calls \o << Resolved("createAccount", "rhinestoneAccount"),
                                 Call("getAddress", None),
                                 Resolved("getAddress", rhinestoneAddress) >>,
                     "signEip7702InitData", None)
            /\ loc' = [loc EXCEPT !.rhinestoneAddress = rhinestoneAddress]
       \/ \E e \in ThrownBy("createAccount") :
            /\ OuterCatch(logs, Append(calls, Rejected("createAccount", e)), e)
            /\ loc' = loc
    /\ UNCHANGED <<envVars, running, lastAuthorization, settled, currentNetwork,
                   activeAccount, callbacks>>

\* `await rhinestoneAccount.signEip7702InitData()` settles; up to
\* `await rhinestoneAccount.prepareTransaction(..)`
RhSignEip7702InitData ==
    /\ pc = "signEip7702InitData"
    /\ variant = "RhinestoneTest"
    /\ \/ \E sig \in InitSignatures :
            RhPrepare(log(logs, "success",
                          <<"Init signature: ", IF sig = NULL THEN UNDEFINED ELSE slice20(sig), "...">>),
                      Append(calls, Resolved("signEip7702InitData", sig)), sig)
       \/ \E e \in ThrownBy("signEip7702InitData") :
            LET cl == Append(calls, Rejected("signEip7702InitData", e))
            IN  IF MessageThrows(e)
                THEN /\ OuterCatch(logs, cl, TypeErrorNull("message"))
                     /\ loc' = loc
                ELSE RhPrepare(log(logs, "error", <<"signEip7702InitData failed: ">> \o MessageText(e)),
                               cl, UNDEFINED)
    /\ UNCHANGED <<envVars, running, lastAuthorization, settled, currentNetwork,
                   activeAccount, callbacks>>

\* `await rhinestoneAccount.prepareTransaction(..)` settles; up to
\* `await rhinestoneAccount.signTransaction(preparedTx)`
RhPrepareTransaction ==
    /\ pc = "prepareTransaction"
    /\ variant = "RhinestoneTest"
    /\ \/ /\ Await(logAll(logs, << LogEntry("success", <<"Transaction prepared">>),
                                   LogEntry("info", <<"Signing transaction...">>) >>),
                   Append(calls, Resolved("prepareTransaction", PREPARED_TX)),
                   "signTransaction", PREPARED_TX)
          /\ loc' = [loc EXCEPT !.preparedTx = PREPARED_TX]
       \/ \E e \in ThrownBy("prepareTransaction") :
            /\ OuterCatch(logs, Append(calls, Rejected("prepareTransaction", e)), e)
            /\ loc' = loc
    /\ UNCHANGED <<envVars, running, lastAuthorization, settled, currentNetwork,
                   activeAccount, callbacks>>

\* `await rhinestoneAccount.signTransaction(preparedTx)` settles; up to
\* `await rhinestoneAccount.signAuthorizations(signedTx)`
RhSignTransaction ==
    /\ pc = "signTransaction"
    /\ \/ /\ Await(logAll(logs, << LogEntry("success", <<"Transaction signed">>),
                                   LogEntry("info", <<"Signing authorizations...">>) >>),
                   Append(calls, Resolved("signTransaction", SIGNED_TX)),
                   "signAuthorizations", SIGNED_TX)
          /\ loc' = [loc EXCEPT !.signedTx = SIGNED_TX]
       \/ \E e \in ThrownBy("signTransaction") :
            /\ OuterCatch(logs, Append(calls, Rejected("signTransaction", e)), e)
            /\ loc' = loc
    /\ UNCHANGED <<envVars, running, lastAuthorization, settled, currentNetwork,
                   activeAccount, callbacks>>

\* RhSignAuthorizations without the try block around it: a rejected signAuthorizations
\* is logged and the run goes on to submit, with no authorizations
RhSignAuthorizationsSubmitsAnyway ==
    /\ pc = "signAuthorizations"
    /\ variant = "RhinestoneTest"
    /\ \/ \E n \in AuthLists :
            LET cl == Append(calls, Resolved("signAuthorizations", n))
            IN  IF n = NoList
                THEN OuterCatch(logs, cl, TypeErrorNull("length"))
                ELSE Await(logAll(logs,
                             << LogEntry("success", <<"Authorizations signed: ", NumStr(n)>>),
                                LogEntry("info", <<"Submitting transaction...">>) >>),
                           cl, "submitTransaction", <<loc.signedTx, NumStr(n)>>)
       \/ \E e \in ThrownBy("signAuthorizations") :
            Await(log(logs, "info", <<"Submitting transaction...">>),
                  Append(calls, Rejected("signAuthorizations", e)),
                  "submitTransaction", <<loc.signedTx, NumStr(0)>>)
    /\ UNCHANGED <<envVars, running, lastAuthorization, loc, settled, currentNetwork,
                   activeAccount, callbacks>>

\* `await rhinestoneAccount.signAuthorizations(signedTx)` settles; up to
\* `await rhinestoneAccount.submitTransaction(signedTx, authorizations)`
RhSignAuthorizations ==
    /\ pc = "signAuthorizations"
    /\ variant = "RhinestoneTest"
    /\ \/ \E n \in AuthLists :
            LET cl == Append(calls, Resolved("signAuthorizations", n))
            IN  IF n = NoList
                THEN OuterCatch(logs, cl, TypeErrorNull("length"))
                ELSE Await(logAll(logs,
                             << LogEntry("success", <<"Authorizations signed: ", NumStr(n)>>),
                                LogEntry("info", <<"Submitting transaction...">>) >>),
                           cl, "submitTransaction", <<loc.signedTx, NumStr(n)>>)
       \/ \E e \in ThrownBy("signAuthorizations") :
            OuterCatch(logs, Append(calls, Rejected("signAuthorizations", e)), e)
    /\ UNCHANGED <<envVars, running, lastAuthorization, loc, settled, currentNetwork,
                   activeAccount, callbacks>>

\* `await rhinestoneAccount.submitTransaction(..)` settles
RhSubmitTransaction ==
    /\ pc = "submitTransaction"
    /\ \/ \E result \in SubmitResults :
            Exit(logAll(logs, << LogEntry("success", <<"=== TRANSACTION SUBMITTED ===">>),
                                 LogEntry("info", <<"Result: ">> \o result) >>),
                 Append(calls, Resolved("submitTransaction", result)))
       \/ \E e \in ThrownBy("submitTransaction") :
            OuterCatch(logs, Append(calls, Rejected("submitTransaction", e)), e)
    /\ UNCHANGED <<envVars, running, lastAuthorization, loc, settled, currentNetwork,
                   activeAccount, callbacks>>

\* EoaSignAuthorization for an SDK that keeps the custom account and calls it back after
\* the operation that needed it has settled and the run is over
EoaSignAuthorizationLate ==
    /\ variant = "RhinestoneTest"
    /\ \/ pc \in {"createAccount", "signEip7702InitData", "prepareTransaction",
                  "signTransaction", "signAuthorizations", "submitTransaction"}
       \/ pc = "idle" /\ settled # "none"
    /\ callbacks < MaxCallbacks
    /\ \E authorization \in AuthRequests :
         LET delegate == IF authorization.contractAddress # UNDEFINED
                         THEN authorization.contractAddress ELSE authorization.address
         IN  /\ logs' = log(logs, "info", <<"Signing authorization for: ", delegate>>)
             /\ calls' = Append(calls, Call("dynamicSigner.signAuthorization",
                                            [contractAddress |-> delegate,
                                             chainId |-> authorization.chainId]))
    /\ callbacks' = callbacks + 1
    /\ UNCHANGED <<envVars, running, lastAuthorization, pc, loc, rejection, settled,
                   currentNetwork, activeAccount>>

\* eoaAccount.signAuthorization(authorization), called back by the SDK while one of
\* its operations is pending
EoaSignAuthorization ==
    /\ variant = "RhinestoneTest"
    /\ pc \in {"createAccount", "signEip7702InitData", "prepareTransaction", "signTransaction",
               "signAuthorizations", "submitTransaction"}
    /\ callbacks < MaxCallbacks
    /\ \E authorization \in AuthRequests :
         LET delegate == IF authorization.contractAddress # UNDEFINED
                         THEN authorization.contractAddress ELSE authorization.address
         IN  /\ logs' = log(logs, "info", <<"Signing authorization for: ", delegate>>)
             /\ calls' = Append(calls, Call("dynamicSigner.signAuthorization",
                                            [contractAddress |-> delegate,
                                             chainId |-> authorization.chainId]))
    /\ callbacks' = callbacks + 1
    /\ UNCHANGED <<envVars, running, lastAuthorization, pc, loc, rejection, settled,
                   currentNetwork, activeAccount>>

-----------------------------------------------------------------------------

\* a freshly mounted component, its wallet, settings and connector
Mounted ==
    /\ variant \in Variants
    /\ primaryWallet \in CASE variant = "Eip7702Test" -> EipWallets
                          [] variant = "App" -> AppWallets
                          [] OTHER -> RhWallets
    /\ RHINESTONE_API_KEY \in IF variant = "Eip7702Test" THEN {TRUE} ELSE BOOLEAN
    /\ viemSignAuth \in IF variant = "App" THEN BOOLEAN ELSE {TRUE}
    /\ contractAddress \in IF variant = "Eip7702Test"
                            THEN {TEST_DELEGATE_CONTRACT, OTHER_DELEGATE}
                            ELSE {TEST_DELEGATE_CONTRACT}
    /\ logs = <<>>
    /\ running = FALSE
    /\ lastAuthorization = None
    /\ pc = "idle"
    /\ calls = <<>>
    /\ loc = NoLoc
    /\ rejection = None
    /\ settled = "none"
    /\ currentNetwork \in IF variant = "Eip7702Test" THEN {None, Some(1), Some(BASE_ID)}
                           ELSE {Some(BASE_ID)}
    /\ activeAccount = None
    /\ callbacks = 0
    /\ DYNAMIC_ENVIRONMENT_ID \in BOOLEAN
    /\ detached = None

Init ==
    /\ Mounted
    /\ history = NoHistory

Next ==
    \/ RunTest
    \/ Finally
    \/ EipBody
    \/ EipGetNetwork
    \/ EipSwitchNetwork
    \/ EipGetSigner
    \/ EipSignAuthorization
    \/ AppBody
    \/ AppGetWalletClient
    \/ AppCreateAccount
    \/ AppIsDeployed
    \/ AppSignEip7702InitData
    \/ AppPrepareTransaction
    \/ AppSignAuthorizations
    \/ AppWalletSignAuthorization
    \/ RhBody
    \/ RhGetSigner
    \/ RhCreateAccount
    \/ RhSignEip7702InitData
    \/ RhPrepareTransaction
    \/ RhSignTransaction
    \/ RhSignAuthorizations
    \/ RhSubmitTransaction
    \/ EoaSignAuthorization

Spec == Init /\ [][Next]_vars

\* the continuations of a run: the event loop resumes runTest once the awaited call
\* has settled, and every awaited call is assumed to settle
Progress ==
    \/ Finally
    \/ EipBody \/ EipGetNetwork \/ EipSwitchNetwork \/ EipGetSigner \/ EipSignAuthorization
    \/ AppBody \/ AppGetWalletClient \/ AppCreateAccount \/ AppIsDeployed
    \/ AppSignEip7702InitData \/ AppPrepareTransaction \/ AppSignAuthorizations
    \/ AppWalletSignAuthorization
    \/ RhBody \/ RhGetSigner \/ RhCreateAccount \/ RhSignEip7702InitData
    \/ RhPrepareTransaction \/ RhSignTransaction \/ RhSignAuthorizations
    \/ RhSubmitTransaction

LiveSpec == Spec /\ WF_vars(Progress)

-----------------------------------------------------------------------------
(* main.tsx: Root and its two pages *)

\* the awaited operations: runTest is suspended on one of them, or is not suspended
Suspended == pc \notin {"idle", "body", "finally"}

\* main.tsx, lines 20-46 and 48: a click on the button of the other page replaces the
\* mounted component.  The new component starts from its initial state; a run of the
\* old one that is suspended on a call is not cancelled, its call stays in flight and
\* what it writes afterwards goes to a component that is gone.  The model keeps such a
\* run up to the settling of that call, one abandoned run at a time.  A click cannot
\* fall inside a synchronous stretch of runTest.
SwitchPage ==
    /\ variant \in {"RhinestoneTest", "Eip7702Test"}
    /\ pc = "idle" \/ (Suspended /\ detached = None)
    /\ variant' = IF variant = "RhinestoneTest" THEN "Eip7702Test" ELSE "RhinestoneTest"
    /\ detached' = IF Suspended THEN Some(pc) ELSE detached
    /\ logs' = <<>>
    /\ running' = FALSE
    /\ lastAuthorization' = None
    /\ contractAddress' = TEST_DELEGATE_CONTRACT
    /\ pc' = "idle"
    /\ calls' = <<>>
    /\ loc' = NoLoc
    /\ rejection' = None
    /\ settled' = "none"
    /\ callbacks' = 0
    /\ UNCHANGED <<primaryWallet, RHINESTONE_API_KEY, viemSignAuth, DYNAMIC_ENVIRONMENT_ID,
                   currentNetwork, activeAccount, history>>

\* the call an abandoned run is suspended on settles; a switchNetwork that resolves has
\* moved the connector to Base
AbandonedCallSettles ==
    /\ detached # None
    /\ detached' = None
    /\ currentNetwork' \in IF detached = Some("switchNetwork")
                            THEN {currentNetwork, Some(BASE_ID)}
                            ELSE {currentNetwork}
    /\ UNCHANGED <<variant, primaryWallet, RHINESTONE_API_KEY, viemSignAuth, contractAddress,
                   DYNAMIC_ENVIRONMENT_ID, logs, running, lastAuthorization, pc, calls, loc,
                   rejection, settled, activeAccount, callbacks, history>>

\* the wallet of the pages: an embedded wallet that both procedures get a signer from
PageWallets ==
    {w \in EipWallets : /\ w.isSignAuthorizationSupported = "absent"
                        /\ w.evmNetworks = Some(<<1, BASE_ID>>)
                        /\ w.getNetwork /\ w.switchNetwork /\ w.setActiveAccount
                        /\ w.getActiveAccount /\ w.activates /\ w.getSigner}

\* main.tsx, line 15: the first page is RhinestoneTest
PageInit ==
    /\ variant = "RhinestoneTest"
    /\ primaryWallet \in PageWallets
    /\ RHINESTONE_API_KEY = TRUE
    /\ viemSignAuth = TRUE
    /\ contractAddress = TEST_DELEGATE_CONTRACT
    /\ logs = <<>>
    /\ running = FALSE
    /\ lastAuthorization = None
    /\ pc = "idle"
    /\ calls = <<>>
    /\ loc = NoLoc
    /\ rejection = None
    /\ settled = "none"
    /\ currentNetwork = Some(1)
    /\ activeAccount = None
    /\ callbacks = 0
    /\ DYNAMIC_ENVIRONMENT_ID = TRUE
    /\ detached = None
    /\ history = NoHistory

PageNext ==
    \/ SwitchPage
    \/ AbandonedCallSettles
    \/ RunTest
    \/ Finally
    \/ EipBody
    \/ EipGetNetwork
    \/ EipSwitchNetwork
    \/ EipGetSigner
    \/ EipSignAuthorization
    \/ RhBody
    \/ RhGetSigner
    \/ RhCreateAccount
    \/ RhSignEip7702InitData
    \/ RhPrepareTransaction
    \/ RhSignTransaction
    \/ RhSignAuthorizations
    \/ RhSubmitTransaction
    \/ EoaSignAuthorization

PageSpec == PageInit /\ [][PageNext]_vars

-----------------------------------------------------------------------------
(* Two runs in a row against the same collaborators *)

\* an event of a run that a collaborator decides: an answer, or a callback of the SDK
IsAnswer(c) == c.ev # "call" \/ c.op = "dynamicSigner.signAuthorization"

\* an answer as configured: everything of it, except the network a resolved getNetwork
\* reports, which is the connector's own state
AsConfigured(c) ==
    IF c.op = "getNetwork" /\ c.ev = "resolve" THEN [c EXCEPT !.val = None] ELSE c

\* the i-th event of this run is not the i-th event of the run before
Differs(i) ==
    i > Len(history.calls) \/ AsConfigured(calls[i]) # AsConfigured(history.calls[i])

\* in the second run the collaborators answer as they did in the first, for as long as
\* runTest asks them what it asked in the first
Configured ==
    history.mode = "second" =>
        \A i \in DOMAIN calls :
            (IsAnswer(calls[i]) /\ Differs(i)) =>
                \E j \in 1..(i - 1) : ~IsAnswer(calls[j]) /\ Differs(j)

Replay(A) == A /\ Configured'

\* the wallets of the comparison: for Eip7702Test, connectors that differ in what a
\* first run can leave behind on them (the network, the active account); for App, no
\* wallet and an injected one
ReplayWallets ==
    CASE variant = "Eip7702Test" ->
            {w \in EipWallets : /\ w.isSignAuthorizationSupported # "true"
                                /\ w.evmNetworks \in {Some(<<1>>), Some(<<1, BASE_ID>>)}
                                /\ w.setActiveAccount /\ w.getSigner}
      [] variant = "App" ->
            {w \in AppWallets : w.present => (w.name = "MetaMask" /\ w.getWalletClient)}
      [] OTHER -> {w \in RhWallets : w.activates = w.setActiveAccount}

ReplayInit ==
    /\ Mounted
    /\ DYNAMIC_ENVIRONMENT_ID
    /\ primaryWallet \in ReplayWallets
    /\ contractAddress = TEST_DELEGATE_CONTRACT
    /\ history = [NoHistory EXCEPT !.mode = "first"]

ReplayNext ==
    \/ Replay(RunTest)
    \/ Replay(Finally)
    \/ Replay(EipBody)
    \/ Replay(EipGetNetwork)
    \/ Replay(EipSwitchNetwork)
    \/ Replay(EipGetSigner)
    \/ Replay(EipSignAuthorization)
    \/ Replay(AppBody)
    \/ Replay(AppGetWalletClient)
    \/ Replay(AppCreateAccount)
    \/ Replay(AppIsDeployed)
    \/ Replay(AppSignEip7702InitData)
    \/ Replay(AppPrepareTransaction)
    \/ Replay(AppSignAuthorizations)
    \/ Replay(AppWalletSignAuthorization)
    \/ Replay(RhBody)
    \/ Replay(RhGetSigner)
    \/ Replay(RhCreateAccount)
    \/ Replay(RhSignEip7702InitData)
    \/ Replay(RhPrepareTransaction)
    \/ Replay(RhSignTransaction)
    \/ Replay(RhSignAuthorizations)
    \/ Replay(RhSubmitTransaction)
    \/ Replay(EoaSignAuthorization)

ReplaySpec == ReplayInit /\ [][ReplayNext]_vars

-----------------------------------------------------------------------------
(* Vocabulary of the properties *)

\* a run has ended: logs, calls and settled are those of the last run
Ended == pc = "idle" /\ settled # "none"

Invoked(op) == \E i \in DOMAIN calls : calls[i].op = op /\ calls[i].ev = "call"
Threw(op) == \E i \in DOMAIN calls : calls[i].op = op /\ calls[i].ev = "reject"
TimesInvoked(op) == Cardinality({i \in DOMAIN calls : calls[i].op = op /\ calls[i].ev = "call"})

IsPrefix(a, b) == Len(a) <= Len(b) /\ SubSeq(b, 1, Len(a)) = a

HasEntry(level, msg) == \E i \in DOMAIN logs : logs[i] = LogEntry(level, msg)
ErrorEntries == {i \in DOMAIN logs : logs[i].level = "error"}


-----------------------------------------------------------------------------
(* C1: in every variant runTest first resets the log to the empty sequence, and   *)
(* until the run sets running back to false every step leaves the entries that   *)
(* are there in place and only appends at the end.                                *)
C1_LogClearedThenAppendOnly ==
    [][ /\ (~running /\ running' => logs' = <<>>)
        /\ (running => IsPrefix(logs, logs')) ]_vars

\* a second run (the account was activated by the first) has cleared the log of the
\* first and appended its own entries
C1_Witness ==
    /\ running
    /\ pc = "getNetwork"
    /\ activeAccount # None
    /\ Len(logs) >= 3

(* C2: running is true from the start of runTest and is set back to false on      *)
(* every exit path (early return, completion, thrown error), given that every     *)
(* awaited call settles: no run ends with running left true.                      *)
C2_RunningAlwaysCleared ==
    /\ [](pc = "idle" => ~running)
    /\ [](pc # "idle" => running)
    /\ (running ~> ~running)

\* a run that ended on a thrown error, and one that ended on an early return
C2_Witness ==
    /\ Ended
    /\ ~running
    /\ \/ \E i \in DOMAIN calls : calls[i].ev = "reject"
       \/ ~primaryWallet.present

(* C3 (as claimed): whatever an external call throws or rejects with (an Error,   *)
(* an object without a message, null), runTest never rejects to its caller, and   *)
(* the failure shows as an error-level log entry.                                 *)
C3_NeverRejects ==
    Ended =>
        /\ settled = "fulfilled"
        /\ (\E i \in DOMAIN calls : calls[i].ev = "reject") => ErrorEntries # {}

(* C4 (as claimed): a run started without a wallet handle ends with exactly one   *)
(* log entry, of level error, no external call made, and running false.           *)
C4_NoWalletSingleEntry ==
    Ended /\ ~primaryWallet.present =>
        /\ Len(logs) = 1
        /\ logs[1].level = "error"
        /\ calls = <<>>
        /\ ~running

(* C4 (amended): a run started without a wallet handle ends with exactly one      *)
(* error-level entry, which is the last entry of the log; it is the only entry in *)
(* RhinestoneTest and follows the single info entry of Step 1 in Eip7702Test and  *)
(* App; no external call was made and running is false.                           *)
C4_NoWalletOneError ==
    Ended /\ ~primaryWallet.present =>
        /\ Cardinality(ErrorEntries) = 1
        /\ logs[Len(logs)].level = "error"
        /\ IF variant = "RhinestoneTest"
           THEN Len(logs) = 1
           ELSE Len(logs) = 2 /\ logs[1].level = "info"
        /\ calls = <<>>
        /\ ~running
        /\ settled = "fulfilled"

C4_Witness == Ended /\ ~primaryWallet.present /\ variant = "App"

(* C5: in Eip7702Test, when Base is not in the connector's declared chain set     *)
(* (evmNetworks missing, empty or without Base), getNetwork, switchNetwork,       *)
(* setActiveAccount, getSigner and signer.signAuthorization are never invoked,    *)
(* and the run ends on an error entry.                                            *)
BaseDeclared ==
    /\ primaryWallet.evmNetworks # None
    /\ \E i \in DOMAIN primaryWallet.evmNetworks[1] : primaryWallet.evmNetworks[1][i] = BASE_ID

C5_NoSigningWithoutBase ==
    variant = "Eip7702Test" /\ ~BaseDeclared =>
        /\ \A op \in {"getNetwork", "switchNetwork", "setActiveAccount", "getSigner",
                      "signer.signAuthorization"} : ~Invoked(op)
        /\ Ended => logs[Len(logs)].level = "error" /\ lastAuthorization = None

\* a connector that declares chains, none of them Base, whose run has ended
C5_Witness ==
    /\ variant = "Eip7702Test"
    /\ Ended
    /\ primaryWallet.hasConnector
    /\ primaryWallet.evmNetworks = Some(<<1>>)
    /\ primaryWallet.setActiveAccount /\ primaryWallet.getSigner
    /\ HasEntry("error", <<"Base not available. Add it in Dynamic dashboard.">>)

\* signAuthorizations threw an Error whose message contains 'Account type', and the
\* log has a failure entry carrying that message with the marker somewhere after it
ThrewAccountType(i) ==
    /\ calls[i].op = "signAuthorizations"
    /\ calls[i].ev = "reject"
    /\ calls[i].val.kind = "Error"
    /\ includes(calls[i].val.message, "Account type")

FailureThenMarker(message) ==
    \E j, k \in DOMAIN logs :
        /\ j < k
        /\ logs[j].level = "error"
        /\ Len(logs[j].msg) = 1 + Len(message)
        /\ Tail(logs[j].msg) = message
        /\ logs[k] = LogEntry("error", <<BUG_CONFIRMED>>)

(* C6 (as claimed): whenever the account-abstraction client's signAuthorizations  *)
(* throws an error whose message contains 'Account type', the log has a generic   *)
(* failure entry carrying the message and, after it, an error-level BUG CONFIRMED *)
(* marker.                                                                        *)
C6_MarkerInEveryVariant ==
    \A i \in DOMAIN calls : ThrewAccountType(i) => FailureThenMarker(calls[i].val.message)

(* C6 (amended): in the bug-repro variant (App), whenever signAuthorizations      *)
(* throws an error whose message contains 'Account type', the log has a generic   *)
(* failure entry carrying the message and, after it, an error-level BUG CONFIRMED *)
(* marker; RhinestoneTest logs the failure without a marker.                      *)
C6_MarkerInApp ==
    \A i \in DOMAIN calls :
        ThrewAccountType(i) =>
            IF variant = "App"
            THEN FailureThenMarker(calls[i].val.message)
            ELSE /\ logs[Len(logs)] = LogEntry("error", <<"Error: ">> \o calls[i].val.message)
                 /\ ~HasEntry("error", <<BUG_CONFIRMED>>)

\* the message has 'Account type' and neither of the other two signatures
C6_Witness ==
    /\ variant = "App"
    /\ \E i \in DOMAIN calls :
        /\ ThrewAccountType(i)
        /\ ~includes(calls[i].val.message, "json-rpc")
        /\ ~includes(calls[i].val.message, "not supported")

(* C7 (as claimed): in App, whatever signAuthorizations throws at step 10, the    *)
(* failure is caught inside step 10: the run goes on to step 11 and never reaches *)
(* the outer "Unexpected error" handler because of it.                            *)
C7_Step10NeverEndsRun ==
    variant = "App" /\ Threw("signAuthorizations") =>
        HasEntry("info", <<"Step 11: Testing walletClient.signAuthorization workaround...">>)

(* C8 (as claimed): in App and RhinestoneTest, if signEip7702InitData throws, an  *)
(* error entry is logged and prepareTransaction is still invoked, exactly once,   *)
(* with eip7702InitSignature undefined.                                           *)
C8_InitFailureStillPrepares ==
    variant \in {"App", "RhinestoneTest"} /\ Threw("signEip7702InitData") =>
        /\ ErrorEntries # {}
        /\ TimesInvoked("prepareTransaction") = 1
        /\ \A i \in DOMAIN calls :
             calls[i].op = "prepareTransaction" /\ calls[i].ev = "call" => calls[i].val = UNDEFINED

(* C9 (as claimed): in App and RhinestoneTest, if prepareTransaction throws, an   *)
(* error entry is logged for it and no later operation of the run is invoked.     *)
C9_PrepareFailureStops ==
    \A i \in DOMAIN calls :
        calls[i].op = "prepareTransaction" /\ calls[i].ev = "reject" =>
            /\ i = Len(calls)
            /\ logs[Len(logs)].level = "error"

\* the six success entries that echo the fields of authorization a
EchoedOnce(prefix, value) ==
    /\ Cardinality({i \in DOMAIN logs : logs[i].level = "success" /\ Head(logs[i].msg) = prefix}) = 1
    /\ HasEntry("success", <<prefix, value>>)

ResolvedTuple(a) ==
    /\ calls # <<>>
    /\ calls[Len(calls)] = Resolved("signer.signAuthorization", a)
    /\ ~a.isNull
    /\ a.contractAddress # UNDEFINED

(* C10: in Eip7702Test, when signer.signAuthorization resolves with a tuple       *)
(* {contractAddress, chainId, nonce, r, s, yParity}, once the run has ended       *)
(* lastAuthorization is exactly that tuple, the log has one success entry for     *)
(* each of the six fields carrying the returned value, and running is false.      *)
C10_AuthorizationEchoed ==
    \A a \in Authorizations :
        Ended /\ ResolvedTuple(a) =>
            /\ lastAuthorization = Some(a)
            /\ EchoedOnce("Contract: ", a.contractAddress)
            /\ EchoedOnce("Chain ID: ", NumStr(a.chainId))
            /\ EchoedOnce("Nonce: ", NumStr(a.nonce))
            /\ EchoedOnce("r: ", a.r)
            /\ EchoedOnce("s: ", a.s)
            /\ EchoedOnce("yParity: ", NumStr(a.yParity))
            /\ ~running
            /\ settled = "fulfilled"

\* the signer answered with another delegate and another chain than were asked for
C10_Witness ==
    /\ Ended
    /\ \E a \in Authorizations :
        /\ ResolvedTuple(a)
        /\ a.contractAddress # contractAddress
        /\ a.chainId # BASE_ID
        /\ a.nonce = MaxNonce

\* C11: of two runs in a row against the same collaborators, the second logs what the
\* first logged, whatever the first run left behind: at every point of the second run
\* its log and its calls are a beginning of the first run's, and once it has ended the
\* log, the calls and the settlement are the first run's.
C11_SecondRunLogsTheSame ==
    history.mode = "second" =>
        /\ IsPrefix(logs, history.logs)
        /\ \A i \in DOMAIN calls : ~Differs(i)
        /\ Ended => logs = history.logs /\ Len(calls) = Len(history.calls)
                     /\ settled = history.settled

\* C11 (amended): the same, for a connector that is on the same network when the
\* second run starts as when the first started.
C11_SameNetworkSameLog ==
    (history.mode = "second" /\ ~history.networkMoved) =>
        /\ IsPrefix(logs, history.logs)
        /\ IsPrefix(calls, history.calls)
        /\ Ended => logs = history.logs /\ calls = history.calls
                     /\ settled = history.settled

\* a second run has ended whose first run got as far as logging an authorization
C11_Witness ==
    /\ history.mode = "second"
    /\ ~history.networkMoved
    /\ Ended
    /\ Len(history.logs) >= 8
    /\ \E i \in DOMAIN history.calls : history.calls[i].ev = "reject"

-----------------------------------------------------------------------------
\* the external operations of the three procedures
ExternalOperations ==
    {"getNetwork", "switchNetwork", "setActiveAccount", "getSigner",
     "signer.signAuthorization", "getWalletClient", "createAccount", "getAddress",
     "isDeployed", "signEip7702InitData", "prepareTransaction", "signTransaction",
     "signAuthorizations", "walletClient.signAuthorization", "submitTransaction"}

\* C12: within a run every external operation is attempted at most once, and exactly
\* once when the run is suspended on it; no operation is attempted again.
C12_EachOperationOnce ==
    /\ \A op \in ExternalOperations : TimesInvoked(op) <= 1
    /\ pc \in ExternalOperations => TimesInvoked(pc) = 1

\* C12 (amended): the same for every operation but getAddress, which RhinestoneTest
\* calls once after createAccount and once more when it builds the transaction; an
\* operation that failed is not attempted again.
C12_OnceButGetAddress ==
    /\ \A op \in ExternalOperations \ {"getAddress"} : TimesInvoked(op) <= 1
    /\ pc \in ExternalOperations => TimesInvoked(pc) = 1
    /\ TimesInvoked("getAddress") <= IF variant = "RhinestoneTest" THEN 2 ELSE 1
    /\ (variant = "RhinestoneTest" /\ Invoked("prepareTransaction"))
            => TimesInvoked("getAddress") = 2
    /\ \A i \in DOMAIN calls : calls[i].ev = "reject" =>
            \A j \in DOMAIN calls : (j > i) => calls[j].op # calls[i].op

\* a run of RhinestoneTest has ended whose submitTransaction failed: every operation
\* of the procedure was reached
C12_Witness ==
    /\ variant = "RhinestoneTest"
    /\ Ended
    /\ Threw("submitTransaction")
    /\ TimesInvoked("getAddress") = 2
    /\ TimesInvoked("signAuthorizations") = 1

-----------------------------------------------------------------------------
\* C13: at every moment at most one external call issued by a run is pending, over
\* every sequence of runs and page switches.
C13_OneCallPending ==
    ~(Suspended /\ detached # None)

\* C14: while a run is in progress no second run is started: at most one run is active.
C14_OneRunActive ==
    ~(running /\ detached # None)

-----------------------------------------------------------------------------
\* the error entries of a missing capability
MissingCapabilityEntries ==
    { LogEntry("error", <<m>>) :
        m \in {"No connector found", "setActiveAccount not available on connector",
               "getSigner not available", "Failed to get signer",
               "signer.signAuthorization not available", "Not a WaaS wallet",
               "Signer missing signAuthorization", "Failed to get wallet client from Dynamic",
               "VITE_RHINESTONE_API_KEY not set", "RHINESTONE_API_KEY not set"} }

LastEntry == logs[Len(logs)]
LastCall == calls[Len(calls)]

\* the last thing a run was answered is a signer that cannot sign
SignerUnusable ==
    /\ calls # <<>>
    /\ LastCall.op = "getSigner" /\ LastCall.ev = "resolve"
    /\ LastCall.val.isNull \/ ~LastCall.val.signAuthorization

\* the last thing a run was answered is no wallet client
NoWalletClient ==
    /\ calls # <<>>
    /\ LastCall.op = "getWalletClient" /\ LastCall.ev = "resolve"
    /\ LastCall.val = NULL

\* the last thing a run was answered is what precedes the API key check
AtApiKeyCheck ==
    /\ calls # <<>>
    /\ LastCall.ev = "resolve"
    /\ \/ variant = "App" /\ LastCall.op = "getWalletClient" /\ LastCall.val # NULL
       \/ variant = "RhinestoneTest" /\ LastCall.op = "getSigner" /\ ~SignerUnusable

\* C15: a missing capability is reported by one error entry, which is the last entry and
\* the only error entry of the run, and the run is over with it: nothing is called and
\* nothing is logged after it.  Every capability that is missing when its check is
\* reached is reported so.
C15_MissingCapabilityStops ==
    /\ \A i \in DOMAIN logs : logs[i] \in MissingCapabilityEntries =>
            /\ i = Len(logs)
            /\ ErrorEntries = {i}
            /\ pc \in {"finally", "idle"}
            /\ rejection = None
    /\ Ended =>
        /\ (variant = "Eip7702Test" /\ primaryWallet.present /\ ~primaryWallet.hasConnector)
                => LastEntry = LogEntry("error", <<"No connector found">>) /\ calls = <<>>
        /\ (variant = "Eip7702Test" /\ ~primaryWallet.setActiveAccount
              /\ HasEntry("info", <<"Step 4: Setting active account...">>))
                => LastEntry = LogEntry("error", <<"setActiveAccount not available on connector">>)
        /\ (variant = "Eip7702Test" /\ ~primaryWallet.getSigner
              /\ HasEntry("info", <<"Step 5: Getting signer and signing EIP-7702 authorization...">>))
                => LastEntry = LogEntry("error", <<"getSigner not available">>)
                   /\ ~Invoked("getSigner")
        /\ (variant = "RhinestoneTest" /\ primaryWallet.present
              /\ ~(primaryWallet.hasConnector /\ primaryWallet.setActiveAccount
                    /\ primaryWallet.getSigner))
                => LastEntry = LogEntry("error", <<"Not a WaaS wallet">>) /\ calls = <<>>
        /\ SignerUnusable => LastEntry \in MissingCapabilityEntries
        /\ NoWalletClient
                => LastEntry = LogEntry("error", <<"Failed to get wallet client from Dynamic">>)
        /\ (AtApiKeyCheck /\ ~RHINESTONE_API_KEY) => LastEntry \in MissingCapabilityEntries

\* a run of Eip7702Test has ended on a signer without signAuthorization
C15_Witness ==
    /\ variant = "Eip7702Test"
    /\ Ended
    /\ SignerUnusable
    /\ ~LastCall.val.isNull
    /\ LastEntry = LogEntry("error", <<"signer.signAuthorization not available">>)

-----------------------------------------------------------------------------
\* setActiveAccount was called with the connected address before getSigner was called
SetActiveBeforeGetSigner ==
    \E i, j \in DOMAIN calls :
        /\ i < j
        /\ calls[i].op = "setActiveAccount" /\ calls[i].ev = "call"
        /\ calls[i].val = Some(primaryWallet.address)
        /\ calls[j].op = "getSigner" /\ calls[j].ev = "call"

\* the connector reports an active account
ReportsActiveAccount == primaryWallet.getActiveAccount /\ activeAccount # None

\* the run got as far as the activation of the account
ActivationReached ==
    IF variant = "Eip7702Test"
    THEN HasEntry("info", <<"Step 4: Setting active account...">>)
    ELSE primaryWallet.present /\ primaryWallet.hasConnector

\* C16: in Eip7702Test and RhinestoneTest getSigner is invoked only after
\* setActiveAccount was called with the connected address and the connector reported
\* an active account; without setActiveAccount or without a reported active account
\* the run ends on an error and getSigner is not called.
C16_SignerAfterActiveAccount ==
    variant \in {"Eip7702Test", "RhinestoneTest"} =>
        /\ Invoked("getSigner") => SetActiveBeforeGetSigner /\ ReportsActiveAccount
        /\ (Ended /\ ActivationReached
              /\ (~primaryWallet.setActiveAccount \/ ~ReportsActiveAccount))
                => ~Invoked("getSigner") /\ LastEntry.level = "error"

\* C16 (amended): Eip7702Test does so; RhinestoneTest calls getSigner after
\* setActiveAccount was called with the connected address, whatever the connector
\* reports, and ends on an error without calling it when setActiveAccount is absent.
C16_SignerAfterSetActiveAccount ==
    /\ variant = "Eip7702Test" =>
            /\ Invoked("getSigner") => SetActiveBeforeGetSigner /\ ReportsActiveAccount
            /\ (Ended /\ ActivationReached
                  /\ (~primaryWallet.setActiveAccount \/ ~ReportsActiveAccount))
                    => ~Invoked("getSigner") /\ LastEntry.level = "error"
    /\ variant = "RhinestoneTest" =>
            /\ Invoked("getSigner") => SetActiveBeforeGetSigner
            /\ (Ended /\ ActivationReached /\ ~primaryWallet.setActiveAccount)
                    => ~Invoked("getSigner") /\ LastEntry.level = "error"
            /\ (primaryWallet.setActiveAccount /\ primaryWallet.getSigner /\ pc = "finally")
                    => Invoked("getSigner")

\* a run of Eip7702Test ended at step 4 because the connector reported no active
\* account after setActiveAccount
C16_Witness ==
    /\ variant = "Eip7702Test"
    /\ Ended
    /\ Invoked("setActiveAccount")
    /\ ~ReportsActiveAccount
    /\ LastEntry = LogEntry("error", <<"Failed to set active account">>)

-----------------------------------------------------------------------------
\* a switch to Base was requested through switchNetwork and has resolved
SwitchResolved ==
    \E i, j \in DOMAIN calls :
        /\ i < j
        /\ calls[i].op = "switchNetwork" /\ calls[i].ev = "call"
        /\ calls[i].val = Some(BASE_ID)
        /\ calls[j].op = "switchNetwork" /\ calls[j].ev = "resolve"

\* getNetwork reported that the connector is on Base
ReportedOnBase ==
    \E i \in DOMAIN calls :
        /\ calls[i].op = "getNetwork" /\ calls[i].ev = "resolve"
        /\ calls[i].val = Some(BASE_ID)

\* C17: in Eip7702Test, with Base declared and not the current network, "Switched to
\* Base" is logged and step 4 begins only after a switch to Base was requested through
\* switchNetwork and resolved; when the current network is Base, switchNetwork is not
\* invoked.
C17_SwitchedOnlyAfterSwitch ==
    variant = "Eip7702Test" =>
        /\ HasEntry("success", <<"Switched to Base">>) => SwitchResolved
        /\ (HasEntry("info", <<"Step 4: Setting active account...">>) /\ ~ReportedOnBase)
                => SwitchResolved
        /\ ReportedOnBase => ~Invoked("switchNetwork")

-----------------------------------------------------------------------------
\* the workaround of step 11 was attempted
WorkaroundAttempted ==
    Invoked("getTransactionMessages") \/ Invoked("walletClient.signAuthorization")

\* signAuthorizations was answered before the workaround was attempted
AnsweredBeforeWorkaround(ev) ==
    \E i, j \in DOMAIN calls :
        /\ i < j
        /\ calls[i].op = "signAuthorizations" /\ calls[i].ev = ev
        /\ calls[j].op = "getTransactionMessages" /\ calls[j].ev = "call"

\* signAuthorizations resolved: with a list, with no list
ResolvedList ==
    \E i \in DOMAIN calls : /\ calls[i].op = "signAuthorizations" /\ calls[i].ev = "resolve"
                             /\ calls[i].val # NoList
ResolvedNoList ==
    \E i \in DOMAIN calls : /\ calls[i].op = "signAuthorizations" /\ calls[i].ev = "resolve"
                             /\ calls[i].val = NoList

SkippingEntry ==
    HasEntry("info", <<"Step 11: Skipping workaround test (signAuthorizations worked)">>)

\* C18: in App the workaround (getTransactionMessages, walletClient.signAuthorization)
\* is attempted only if signAuthorizations threw earlier in the run; when
\* signAuthorizations resolved, it is not attempted and the skip is logged.
C18_WorkaroundOnlyAfterThrow ==
    variant = "App" =>
        /\ WorkaroundAttempted => AnsweredBeforeWorkaround("reject")
        /\ (ResolvedList \/ ResolvedNoList) => ~WorkaroundAttempted /\ SkippingEntry

\* C18 (amended): the workaround is attempted only if step 10 failed earlier in the run:
\* signAuthorizations threw, or resolved with no list to take the length of; when it
\* resolved with a list, the workaround is not attempted and the skip is logged.
C18_WorkaroundOnlyAfterFailure ==
    variant = "App" =>
        /\ WorkaroundAttempted =>
                /\ loc.signAuthFailed
                /\ AnsweredBeforeWorkaround("reject")
                    \/ (ResolvedNoList /\ AnsweredBeforeWorkaround("resolve"))
        /\ ResolvedList => ~WorkaroundAttempted /\ SkippingEntry
        /\ SkippingEntry => ResolvedList

\* a run of App has ended that signed by hand after signAuthorizations had thrown
C18_Witness ==
    /\ variant = "App"
    /\ Ended
    /\ Threw("signAuthorizations")
    /\ AnsweredBeforeWorkaround("reject")
    /\ Invoked("walletClient.signAuthorization")

-----------------------------------------------------------------------------
\* an address-shaped part of a dump that is not the sender's address, whatever the case
Foreign(t) ==
    t \in AddressShaped /\ toLowerCase(t) # toLowerCase(primaryWallet.address)

\* the first foreign address of a dump is at position k
FirstForeignAt(dump, k) ==
    /\ Foreign(dump[k])
    /\ \A m \in 1..(k - 1) : ~Foreign(dump[m])

\* getTransactionMessages was answered with a dump that holds no foreign address
NoForeignAddress ==
    \E i \in DOMAIN calls :
        /\ calls[i].op = "getTransactionMessages" /\ calls[i].ev = "resolve"
        /\ calls[i].val # <<UNDEFINED>>
        /\ \A k \in DOMAIN calls[i].val : ~Foreign(calls[i].val[k])

\* C19: in App the contractAddress handed to walletClient.signAuthorization is the
\* first address-shaped part of the serialized messages that differs from the sender
\* ignoring case; when there is none, walletClient.signAuthorization is not invoked,
\* an error is logged and the run ends normally through step 12.
C19_DelegateIsFirstForeignAddress ==
    variant = "App" =>
        /\ \A j \in DOMAIN calls :
                (calls[j].op = "walletClient.signAuthorization" /\ calls[j].ev = "call") =>
                    /\ j > 1
                    /\ calls[j - 1].op = "getTransactionMessages"
                    /\ calls[j - 1].ev = "resolve"
                    /\ \E k \in DOMAIN calls[j - 1].val :
                            /\ FirstForeignAt(calls[j - 1].val, k)
                            /\ calls[j].val = calls[j - 1].val[k]
        /\ NoForeignAddress =>
                /\ ~Invoked("walletClient.signAuthorization")
                /\ HasEntry("error", <<"Could not extract delegate address from SDK">>)
                /\ HasEntry("info", <<"Step 12: Checking Dynamic wallet capabilities...">>)
                /\ pc \in {"finally", "idle"}
                /\ rejection = None
                /\ Ended => settled = "fulfilled"

\* walletClient.signAuthorization was called with the delegate that follows the
\* sender's address, written in another case, in the dump
C19_Witness ==
    /\ variant = "App"
    /\ \E j \in DOMAIN calls :
            /\ calls[j].op = "walletClient.signAuthorization" /\ calls[j].ev = "call"
            /\ calls[j].val = OTHER_DELEGATE
            /\ calls[j - 1].op = "getTransactionMessages"
            /\ calls[j - 1].val[2] = "0xABC1"

-----------------------------------------------------------------------------
\* nothing has run: the state is the one the page was (or was not) rendered with
NothingRan ==
    /\ pc = "idle" /\ settled = "none" /\ ~running
    /\ calls = <<>> /\ logs = <<>>

\* the operations of the account-abstraction client
SdkOperations ==
    {"createAccount", "getAddress", "isDeployed", "signEip7702InitData", "prepareTransaction",
     "signTransaction", "signAuthorizations", "getTransactionMessages", "submitTransaction"}

ApiKeyEntries ==
    {LogEntry("error", <<"VITE_RHINESTONE_API_KEY not set">>),
     LogEntry("error", <<"RHINESTONE_API_KEY not set">>)}

\* C20: with either setting absent (VITE_RHINESTONE_API_KEY, VITE_DYNAMIC_ENVIRONMENT_ID)
\* the application fails at startup: no run starts and no external call is made.
C20_NoRunWithoutSettings ==
    (~RHINESTONE_API_KEY \/ ~DYNAMIC_ENVIRONMENT_ID) => NothingRan

\* C20 (amended): without the environment id nothing runs; without the API key runs
\* start and call the wallet, but no operation of the account-abstraction client is
\* invoked, and a run that reaches the check of the key ends on its error entry.
C20_NoRunWithoutEnvironmentId ==
    /\ ~DYNAMIC_ENVIRONMENT_ID => NothingRan
    /\ ~RHINESTONE_API_KEY =>
            /\ \A op \in SdkOperations : ~Invoked(op)
            /\ (Ended /\ AtApiKeyCheck) => LastEntry \in ApiKeyEntries /\ settled = "fulfilled"
    /\ (\E i \in DOMAIN logs : logs[i] \in ApiKeyEntries) => ~RHINESTONE_API_KEY

\* a run of App without the API key got its wallet client and ended on the error
C20_Witness ==
    /\ variant = "App"
    /\ ~RHINESTONE_API_KEY
    /\ DYNAMIC_ENVIRONMENT_ID
    /\ Ended
    /\ Invoked("getWalletClient")
    /\ LastEntry = LogEntry("error", <<"VITE_RHINESTONE_API_KEY not set">>)

-----------------------------------------------------------------------------
\* signer.signAuthorization resolved with the tuple a in the run `cl` records
SignedWith(cl, a) ==
    \E i \in DOMAIN cl :
        /\ cl[i].op = "signer.signAuthorization" /\ cl[i].ev = "resolve"
        /\ ~cl[i].val.isNull
        /\ cl[i].val = a

Signed(cl) ==
    \E i \in DOMAIN cl :
        /\ cl[i].op = "signer.signAuthorization" /\ cl[i].ev = "resolve"
        /\ ~cl[i].val.isNull

\* C21: in Eip7702Test the stored authorization is that of the run started last: it is
\* non-null only if signer.signAuthorization resolved with a tuple in that run, and
\* is then that tuple; a run that has not signed, or stopped or failed before, has null.
C21_AuthorizationOfThisRun ==
    variant = "Eip7702Test" =>
        /\ lastAuthorization # None => SignedWith(calls, lastAuthorization[1])
        /\ Signed(calls) => lastAuthorization # None
        /\ (Ended /\ (settled = "rejected" \/ ErrorEntries # {})) => lastAuthorization = None

\* a second run is at its signing call with nothing stored, after a first run that
\* had stored its authorization
C21_Witness ==
    /\ variant = "Eip7702Test"
    /\ history.mode = "second"
    /\ Signed(history.calls)
    /\ pc = "signer.signAuthorization"
    /\ lastAuthorization = None

-----------------------------------------------------------------------------
\* prepareTransaction resolved in this run
Prepared ==
    \E i \in DOMAIN calls : calls[i].op = "prepareTransaction" /\ calls[i].ev = "resolve"

Step12Entry == LogEntry("info", <<"Step 12: Checking Dynamic wallet capabilities...">>)

\* C22: in App step 12 never blocks or fails the run: from its first entry on, only
\* info entries are appended, no call is issued and the run is over; and it is
\* executed in every run in which prepareTransaction succeeded, whatever came of
\* steps 10 and 11.
C22_Step12AlwaysRuns ==
    variant = "App" =>
        /\ \A i \in DOMAIN logs : logs[i] = Step12Entry =>
                /\ \A j \in i..Len(logs) : logs[j].level = "info"
                /\ pc \in {"finally", "idle"}
                /\ rejection = None
        /\ (Ended /\ Prepared) => (\E i \in DOMAIN logs : logs[i] = Step12Entry)
                                  /\ settled = "fulfilled"

-----------------------------------------------------------------------------
\* signAuthorizations threw an error whose message has one of the three signatures
ThrewSignature ==
    \E i \in DOMAIN calls :
        /\ calls[i].op = "signAuthorizations" /\ calls[i].ev = "reject"
        /\ calls[i].val.kind = "Error"
        /\ \/ includes(calls[i].val.message, "Account type")
           \/ includes(calls[i].val.message, "json-rpc")
           \/ includes(calls[i].val.message, "not supported")

\* signAuthorizations threw something with a message that has none of the three
ThrewOtherMessage ==
    \E i \in DOMAIN calls :
        /\ calls[i].op = "signAuthorizations" /\ calls[i].ev = "reject"
        /\ calls[i].val.kind = "Error"
        /\ ~includes(calls[i].val.message, "Account type")
        /\ ~includes(calls[i].val.message, "json-rpc")
        /\ ~includes(calls[i].val.message, "not supported")

\* the error entries of step 10: the generic failure entry and the marker
Step10Failures ==
    {i \in DOMAIN logs : /\ logs[i].level = "error"
                         /\ Head(logs[i].msg) = "signAuthorizations FAILED: "}
Step10Markers == {i \in DOMAIN logs : logs[i] = LogEntry("error", <<BUG_CONFIRMED>>)}

\* C23: in App the BUG CONFIRMED marker is logged if and only if signAuthorizations
\* threw and the message has "Account type", "json-rpc" or "not supported"; a failure
\* whose message has none of them gives one error entry of step 10, the generic one,
\* and no marker.
C23_MarkerIffSignature ==
    variant = "App" =>
        /\ Step10Markers # {} <=> ThrewSignature
        /\ Cardinality(Step10Markers) <= 1
        /\ ThrewOtherMessage =>
                /\ Cardinality(Step10Failures) = 1
                /\ Step10Markers = {}
                /\ \A i \in Step10Failures :
                        \E j \in DOMAIN calls :
                            /\ calls[j].op = "signAuthorizations" /\ calls[j].ev = "reject"
                            /\ Tail(logs[i].msg) = calls[j].val.message

\* a run of App has ended in which signAuthorizations threw a message with none of the
\* signatures
C23_Witness ==
    /\ variant = "App"
    /\ Ended
    /\ ThrewOtherMessage
    /\ Cardinality(Step10Failures) = 1
    /\ Invoked("getTransactionMessages")

-----------------------------------------------------------------------------
(* C24 *)

SubmitCalls == {i \in DOMAIN calls : calls[i].op = "submitTransaction" /\ calls[i].ev = "call"}

ResolvedAt(i, op) == calls[i].op = op /\ calls[i].ev = "resolve"

\* the call at i was handed what signTransaction and signAuthorizations resolved with,
\* after prepareTransaction, signTransaction and signAuthorizations resolved in that order
SubmittedInOrder(i) ==
    \E p \in 1..i, s \in 1..i, a \in 1..i :
        /\ p < s /\ s < a /\ a < i
        /\ ResolvedAt(p, "prepareTransaction")
        /\ ResolvedAt(s, "signTransaction")
        /\ ResolvedAt(a, "signAuthorizations")
        /\ calls[a].val # NoList
        /\ calls[i].val = <<calls[s].val, NumStr(calls[a].val)>>

\* C24: in RhinestoneTest submitTransaction is invoked at most once in a run, only after
\* prepareTransaction, signTransaction and signAuthorizations resolved in that order,
\* with the signed transaction and the authorizations they returned; when one of the
\* three fails nothing is submitted.
C24_SubmitAfterSigning ==
    variant = "RhinestoneTest" =>
        /\ Cardinality(SubmitCalls) <= 1
        /\ \A i \in SubmitCalls : SubmittedInOrder(i)
        /\ \A op \in {"prepareTransaction", "signTransaction", "signAuthorizations"} :
              Threw(op) => SubmitCalls = {}

C24_Witness ==
    /\ variant = "RhinestoneTest"
    /\ Ended
    /\ \E i \in DOMAIN calls : ResolvedAt(i, "submitTransaction")
    /\ SubmitCalls # {}

-----------------------------------------------------------------------------
(* C25 *)

-----------------------------------------------------------------------------
(* C26 *)

\* the results of signEip7702InitData that are no signature
EmptyResults == {NULL, "", "0x"}

PrepareCalls == {i \in DOMAIN calls : calls[i].op = "prepareTransaction" /\ calls[i].ev = "call"}

InitResolvedWith(sig) == \E i \in DOMAIN calls : calls[i] = Resolved("signEip7702InitData", sig)
InitResolved == \E i \in DOMAIN calls : ResolvedAt(i, "signEip7702InitData")

InitSuccessEntries ==
    {i \in DOMAIN logs : logs[i].level = "success" /\ logs[i].msg[1] = "Init signature: "}

\* prepareTransaction got no signature or a usable one; an empty result was logged as an
\* error and a success entry was logged only for a usable result
EmptyTreatedAsAbsent ==
    /\ \A i \in PrepareCalls : calls[i].val = UNDEFINED \/ calls[i].val \notin EmptyResults
    /\ \A sig \in EmptyResults :
          InitResolvedWith(sig) =>
              /\ HasEntry("error", <<"signEip7702InitData returned empty/null">>)
              /\ InitSuccessEntries = {}
    /\ InitSuccessEntries # {} => \E sig \in InitSignatures \ EmptyResults : InitResolvedWith(sig)

\* prepareTransaction got what signEip7702InitData resolved with, whatever it is, and
\* every resolved result was logged as a success
PassedOnAsReturned ==
    /\ \A i \in PrepareCalls :
          \/ InitResolvedWith(calls[i].val)
          \/ calls[i].val = UNDEFINED /\ Threw("signEip7702InitData")
    /\ InitResolved <=> InitSuccessEntries # {}
    /\ InitResolved /\ pc = "prepareTransaction" => ErrorEntries = {}

====
